---- MODULE Spec2Model ----
(*****************************************************************************)
(* Model of the LP hedging strategy of tiannian/urban:                       *)
(*   strategy/lph/src/lph.rs          LPHStrategy::execute / status          *)
(*   strategy/lph/src/monitor.rs      LPHMonitor::status                     *)
(*   clients/uniswapv3/src/position_manager.rs   sync_lp, get_block_number   *)
(*   clients/uniswapv3/src/lib.rs     sync_lp without a pinned block         *)
(*   clients/binance/src/perps.rs     get_position, open_sell, close_sell    *)
(*   examples/lph/src/main.rs         the polling driver                     *)
(*                                                                           *)
(* Numbers.  The code computes in f64.  The model holds a finite f64 as the  *)
(* exact number (g + d / 2^DevBits) / Scale: g counts hundredths and d is    *)
(* the distance of the f64 from g hundredths, in units of 2^-DevBits of a    *)
(* hundredth.  The f64 nearest to 0.1 is [g |-> 10, d |-> 320], the number   *)
(* 0.1000000000000000055..., and every f64 operation of the code is          *)
(* computed exactly on these pairs and rounded to the nearest f64, ties to   *)
(* even, as the hardware does.  NaN and the infinities are values of their   *)
(* own kind.  A quotient num / den is kept as the pair of its operands and   *)
(* compared as the f64 quotient compares.                                    *)
(* The numbers so held are those within 2^-28 of a hundredth and of          *)
(* magnitude below 2^17, and the whole numbers below 2^31 hundredths;        *)
(* -0.0 is held as 0.  An operation whose result is no such number has no    *)
(* value in the model.                                                       *)
(*                                                                           *)
(* Text.  A Rust String holding a number is a sequence of one-character      *)
(* strings, e.g. <<"7", ".", "0">>, so that parsing and formatting are       *)
(* computed, not assumed.                                                    *)
(*****************************************************************************)
EXTENDS Integers, Sequences, FiniteSets, TLC

VARIABLES
    cfg,        \* LPHStrategy.base_delta_ratio_threshold (n), base_delta_threshold (m)
    call,       \* the arguments of the execute() call under study
    venue,      \* what the exchange answers during that call
    lastExec,   \* the execute() call once made: the sink calls, the orders, the result
    chain,      \* the chain: chain[b] lists the owner's position NFTs at block b
    positions,  \* UniswapV3PositionManager.positions: token id -> PositionData
    pc,         \* where the driver's loop stands
    cycle,      \* the number of the current poll cycle
    sync,       \* sync_lp's locals: block_number, balance, index, token_id; its next request
    st,         \* status()'s locals once the AMM position is matched
    cex,        \* status()'s local `positions`: what get_position returned
    snapshot,   \* the MonitoringSnapshot status() returned in this cycle, if any
    failed,     \* the step of this cycle that returned an error, or "none"
    pushed,     \* the cycles in which push_message delivered a message
    log,        \* the collaborator calls status() issued in this cycle, in order
    swallowed   \* the token ids whose failed simulation sync_lp replaced by zeros in this cycle

execVars == <<cfg, call, venue, lastExec>>

cycleVars ==
    <<chain, positions, pc, cycle, sync, st, cex, snapshot, failed, pushed, log, swallowed>>

vars == <<cfg, call, venue, lastExec,
          chain, positions, pc, cycle, sync, st, cex, snapshot, failed, pushed, log,
          swallowed>>

-----------------------------------------------------------------------------
(* Fixed point *)

\* units per 1.0: values are counted in hundredths
Scale == 10 * 10

\* a deviation d counts units of 2^-DevBits hundredths: the f64 numbers from 0.01
\* on are multiples of 2^-59, since 0.01 has binary exponent -7 and 52 + 7 = 59
DevBits == 59

Abs(x) == IF x < 0 THEN -x ELSE x

Max(a, b) == IF a >= b THEN a ELSE b

RECURSIVE Pow10(_)
Pow10(k) == IF k <= 0 THEN 1 ELSE 10 * Pow10(k - 1)

RECURSIVE Pow2Rec(_)
Pow2Rec(k) == IF k <= 0 THEN 1 ELSE 2 * Pow2Rec(k - 1)

\* the powers of two the integers hold, tabulated
Pow2Table == [k \in 0..30 |-> Pow2Rec(k)]

\* 2^k (1 for k < 0)
Pow2(k) == IF k <= 0 THEN 1 ELSE Pow2Table[k]

Sgn(x) == IF x < 0 THEN -1 ELSE IF x > 0 THEN 1 ELSE 0

-----------------------------------------------------------------------------
(* Decimal text *)

DigitChars == <<"0", "1", "2", "3", "4", "5", "6", "7", "8", "9">>

Digits == {DigitChars[i] : i \in 1..10}

DigitVal(c) == (CHOOSE i \in 1..10 : DigitChars[i] = c) - 1

\* the decimal digits of k >= 0, most significant first ("0" for 0)
RECURSIVE NatToChars(_)
NatToChars(k) ==
    IF k < 10 THEN <<DigitChars[k + 1]>>
    ELSE Append(NatToChars(k \div 10), DigitChars[(k % 10) + 1])

\* the number a run of digits denotes (0 for the empty run)
RECURSIVE CharsToNat(_)
CharsToNat(s) ==
    IF Len(s) = 0 THEN 0
    ELSE 10 * CharsToNat(SubSeq(s, 1, Len(s) - 1)) + DigitVal(s[Len(s)])

RECURSIVE PadLeft(_, _)
PadLeft(s, width) == IF Len(s) >= width THEN s ELSE PadLeft(<<"0">> \o s, width)

-----------------------------------------------------------------------------
(* f64 values *)

\* the finite f64 (g + d / 2^DevBits) / Scale
Finite(g, d) == [kind |-> "finite", g |-> g, d |-> d]

\* f64::NAN
NaN == [kind |-> "nan", g |-> 0, d |-> 0]

\* f64::INFINITY and f64::NEG_INFINITY: g holds the sign
Inf == [kind |-> "inf", g |-> 1, d |-> 0]

NegInf == [kind |-> "inf", g |-> -1, d |-> 0]

Zero == Finite(0, 0)

One == Finite(Scale, 0)

IsNaN(x) == x.kind = "nan"

IsFinite(x) == x.kind = "finite"

\* x < 0.0 (false for NaN)
IsNeg(x) == x.g < 0 \/ (x.g = 0 /\ x.d < 0)

\* -x
FNeg(x) == [x EXCEPT !.g = -x.g, !.d = -x.d]

\* f64::abs: |NaN| is NaN, |-inf| is +inf
FAbs(x) == IF IsNeg(x) THEN FNeg(x) ELSE x

\* a <= b on f64: false when either side is NaN
FLe(a, b) ==
    /\ ~IsNaN(a)
    /\ ~IsNaN(b)
    /\ IF a.kind = "inf" THEN a.g < 0 \/ b = a
       ELSE IF b.kind = "inf" THEN b.g > 0
       ELSE a.g < b.g \/ (a.g = b.g /\ a.d <= b.d)

\* a > b on f64: false when either side is NaN
FGt(a, b) == ~IsNaN(a) /\ ~IsNaN(b) /\ ~FLe(a, b)

\* a == b on f64: false when either side is NaN
FEq(a, b) == ~IsNaN(a) /\ ~IsNaN(b) /\ a = b

\* floor(log2(q / Scale)) for q > 0
RECURSIVE Exponent2(_)
Exponent2(q) ==
    IF q >= 2 * Scale THEN 1 + Exponent2(q \div 2)
    ELSE IF q < Scale THEN Exponent2(2 * q) - 1
    ELSE 0

RECURSIVE Pow2ModRec(_, _)
Pow2ModRec(k, m) == IF k <= 0 THEN 1 % m ELSE (2 * Pow2ModRec(k - 1, m)) % m

\* 2^k modulo Scale and modulo 2 * Scale, tabulated for the exponents of f64
Pow2ModScale == [k \in 0..(DevBits + 1) |-> Pow2ModRec(k, Scale)]

Pow2ModTwoScale == [k \in 0..(DevBits + 1) |-> Pow2ModRec(k, 2 * Scale)]

\* 2^k modulo m
Pow2Mod(k, m) ==
    IF k <= 0 THEN 1 % m
    ELSE IF m = Scale /\ k <= DevBits + 1 THEN Pow2ModScale[k]
    ELSE IF m = 2 * Scale /\ k <= DevBits + 1 THEN Pow2ModTwoScale[k]
    ELSE Pow2ModRec(k, m)

\* g / Scale = 2^e
IsPow2(g, e) == IF e >= 0 THEN g = Scale * Pow2(e) ELSE g * Pow2(-e) = Scale

\* the binary exponent of the f64 (g, d), g > 0: a number just below a power of
\* two belongs to the binade below it
ExponentOf(g, d) ==
    IF IsPow2(g, Exponent2(g)) /\ d < 0 THEN Exponent2(g) - 1 ELSE Exponent2(g)

\* The f64 numbers of exponent e are the multiples of 2^(e - 52); in units of
\* 2^-DevBits hundredths that spacing is Scale * HundredthUlp(e).
HundredthUlp(e) == Pow2(e + 7)

\* g hundredths as a multiple of 2^(e - 52), modulo 2 * Scale: the hundredths of
\* its fraction and the parity of its integer part
MantissaMod(g, e) == ((g % (2 * Scale)) * Pow2Mod(52 - e, 2 * Scale)) % (2 * Scale)

\* from a mantissa x (modulo 2 * Scale, in hundredths) to the nearest integer, in
\* hundredths: ties to the even integer
ToNearestEven(x) ==
    IF x % Scale = 0 THEN 0
    ELSE IF 2 * (x % Scale) < Scale THEN 0 - (x % Scale)
    ELSE IF 2 * (x % Scale) > Scale THEN Scale - (x % Scale)
    ELSE IF x \div Scale = 1 THEN Scale \div 2 ELSE 0 - (Scale \div 2)

\* the deviation of the f64 nearest to g hundredths, g > 0: what a decimal
\* literal or a parsed decimal text becomes
F64Dev(g) ==
    IF ToNearestEven(MantissaMod(g, Exponent2(g))) = 0 THEN 0
    ELSE ToNearestEven(MantissaMod(g, Exponent2(g))) * HundredthUlp(Exponent2(g))

\* the f64 nearest to g hundredths
F64Of(g) ==
    IF g = 0 THEN Zero
    ELSE IF g < 0 THEN Finite(g, 0 - F64Dev(0 - g))
    ELSE Finite(g, F64Dev(g))


\* the t of the f64 nearest to a point a + r / den between t = a and t = a + 1:
\* at a tie the one whose mantissa is even
RoundPick(g, e, c0, den, a, r) ==
    IF 2 * r < den THEN a
    ELSE IF 2 * r > den THEN a + 1
    ELSE IF (MantissaMod(g, e) + c0 + Scale * a) % (2 * Scale) = 0 THEN a
    ELSE a + 1

RoundUlps(g, e, c0, num, den) == RoundPick(g, e, c0, den, num \div den, num % den)

RoundAtExp(g, d, e, c0) ==
    Finite(g, HundredthUlp(e)
                * (c0 + Scale * RoundUlps(g, e, c0, d - HundredthUlp(e) * c0,
                                          Scale * HundredthUlp(e))))

RoundPos(g, d) ==
    RoundAtExp(g, d, ExponentOf(g, d),
               ((0 - (g % Scale)) * Pow2Mod(52 - ExponentOf(g, d), Scale)) % Scale)

\* the exact number (g + d / 2^DevBits) / Scale rounded to the nearest f64, ties
\* to even: the rounding every f64 operation applies to its exact result.  A
\* whole number and a number below a hundredth are f64 numbers as they are.
RoundF64(g, d) ==
    IF g = 0 THEN Finite(0, d)
    ELSE IF d = 0 /\ g % Scale = 0 THEN Finite(g, 0)
    ELSE IF g < 0 THEN FNeg(RoundPos(0 - g, 0 - d))
    ELSE RoundPos(g, d)

\* a + b on f64: NaN propagates, inf + -inf is NaN, a finite sum is rounded
FAdd(a, b) ==
    IF IsNaN(a) \/ IsNaN(b) THEN NaN
    ELSE IF ~IsFinite(a) /\ ~IsFinite(b) THEN (IF a = b THEN a ELSE NaN)
    ELSE IF ~IsFinite(a) THEN a
    ELSE IF ~IsFinite(b) THEN b
    ELSE RoundF64(a.g + b.g, a.d + b.d)

\* f64::max: a NaN operand is ignored
FMax(a, b) == IF IsNaN(a) THEN b ELSE IF IsNaN(b) THEN a ELSE IF FLe(a, b) THEN b ELSE a

-----------------------------------------------------------------------------
(* str::parse::<f64> and format!("{:.prec$}") *)

\* ASCII lower case of the letters the f64 grammar knows
Lower(c) ==
    CASE c = "I" -> "i" [] c = "N" -> "n" [] c = "F" -> "f" [] c = "T" -> "t"
      [] c = "Y" -> "y" [] c = "A" -> "a" [] c = "E" -> "e" [] OTHER -> c

\* The text after an optional sign, in lower case
Unsigned(s) ==
    IF Len(s) > 0 /\ s[1] \in {"+", "-"}
    THEN [i \in 1..(Len(s) - 1) |-> Lower(s[i + 1])]
    ELSE [i \in 1..Len(s) |-> Lower(s[i])]

\* index of the first c in text, Len(text) + 1 when there is none
IndexOf(text, c) ==
    IF \E i \in 1..Len(text) : text[i] = c
    THEN CHOOSE i \in 1..Len(text) : text[i] = c /\ \A j \in 1..(i - 1) : text[j] # c
    ELSE Len(text) + 1

\* Digit+ | Digit+ '.' Digit* | Digit* '.' Digit+
IsMantissa(mant) ==
    /\ \A i \in 1..Len(mant) : mant[i] \in Digits \cup {"."}
    /\ Cardinality({i \in 1..Len(mant) : mant[i] = "."}) <= 1
    /\ \E i \in 1..Len(mant) : mant[i] \in Digits

\* Sign? Digit+, the text after the 'e'
IsExponent(exp) ==
    /\ Len(exp) > 0
    /\ \A i \in 1..Len(exp) : exp[i] \in Digits \cup (IF i = 1 THEN {"+", "-"} ELSE {})
    /\ exp[Len(exp)] \in Digits

\* the number an exponent text denotes (0 for the empty text)
ExponentVal(exp) ==
    IF Len(exp) > 0 /\ exp[1] = "-" THEN -CharsToNat(Tail(exp))
    ELSE IF Len(exp) > 0 /\ exp[1] = "+" THEN CharsToNat(Tail(exp))
    ELSE CharsToNat(exp)

\* digits * 10^shift hundredths.  A text with a digit below the hundredths
\* denotes no number of the model (no arm).
Scaled(digits, shift) ==
    CASE digits = 0 -> 0
      [] digits # 0 /\ shift >= 0 -> digits * Pow10(shift)
      [] digits # 0 /\ shift < 0 /\ digits % Pow10(0 - shift) = 0 ->
            digits \div Pow10(0 - shift)

\* the digits of mantissa text mant, and the power of ten (in hundredths) they
\* are scaled by under the decimal exponent e10
MantDigits(mant) == CharsToNat(SelectSeq(mant, LAMBDA c : c # "."))

MantShift(mant, e10) ==
    e10 + 2 - (IF IndexOf(mant, ".") <= Len(mant) THEN Len(mant) - IndexOf(mant, ".") ELSE 0)

\* the f64 a number text denotes: the f64 nearest to the decimal; digits *
\* 10^shift beyond f64::MAX (1.797e308 units) parses to infinity
NumberVal(neg, mant, e10) ==
    IF MantDigits(mant) # 0
        /\ MantShift(mant, e10) + Len(NatToChars(MantDigits(mant))) > 311
    THEN (IF neg THEN NegInf ELSE Inf)
    ELSE F64Of((IF neg THEN -1 ELSE 1) * Scaled(MantDigits(mant), MantShift(mant, e10)))

\* str::parse::<f64>():  Sign? ( 'inf' | 'infinity' | 'nan' | Number ),
\* Number ::= ( Digit+ | Digit+ '.' Digit* | Digit* '.' Digit+ ) Exp?,
\* Exp ::= 'e' Sign? Digit+, letters in either case; anything else is Err.
ParseText(neg, low, epos) ==
    IF low = <<"n", "a", "n">> THEN [ok |-> TRUE, val |-> NaN]
    ELSE IF low = <<"i", "n", "f">> \/ low = <<"i", "n", "f", "i", "n", "i", "t", "y">>
    THEN [ok |-> TRUE, val |-> IF neg THEN NegInf ELSE Inf]
    ELSE IF /\ IsMantissa(SubSeq(low, 1, epos - 1))
            /\ epos <= Len(low) => IsExponent(SubSeq(low, epos + 1, Len(low)))
    THEN [ok |-> TRUE,
          val |-> NumberVal(neg, SubSeq(low, 1, epos - 1),
                            ExponentVal(SubSeq(low, epos + 1, Len(low))))]
    ELSE [ok |-> FALSE, val |-> Zero]

ParseF64(s) == ParseText(Len(s) > 0 /\ s[1] = "-", Unsigned(s), IndexOf(Unsigned(s), "e"))

\* q / unit rounded to an integer as format! rounds the f64 (q, d), q >= 0:
\* exactly, so a decimal tie falls to the side the f64 lies on, and to the even
\* digit when the f64 is the decimal itself
RoundAt(q, d, unit) ==
    IF \/ 2 * (q % unit) > unit
       \/ /\ 2 * (q % unit) = unit
          /\ IF d = 0 THEN (q \div unit) % 2 = 1 ELSE d > 0
    THEN (q \div unit) + 1
    ELSE q \div unit

\* the digits ds with a decimal point before the last prec of them
PointAt(ds, prec) ==
    IF prec = 0 THEN ds
    ELSE SubSeq(ds, 1, Len(ds) - prec) \o <<".">> \o SubSeq(ds, Len(ds) - prec + 1, Len(ds))

\* the digits of the f64 (q, d), q >= 0, at prec decimal places
FixedDigits(q, d, prec) ==
    PointAt(PadLeft(NatToChars(IF Pow10(prec) <= Scale
                               THEN RoundAt(q, d, Scale \div Pow10(prec))
                               ELSE q * (Pow10(prec) \div Scale)),
                    prec + 1),
            prec)

\* what format! leaves instead of a text when it panics: no sequence of
\* characters
FormatPanic == <<"panic: Formatting argument out of range">>

\* format!("{:.prec$}", x): a precision given at run time is held in 16 bits,
\* and with one of 65536 or more format! panics whatever x is.  Otherwise NaN
\* prints "NaN" and an infinity "inf" whatever the precision, and a negative
\* number is prefixed with "-"
FormatFixed(x, prec) ==
    IF prec >= 65536 THEN FormatPanic
    ELSE IF IsNaN(x) THEN <<"N", "a", "N">>
    ELSE IF x.kind = "inf"
    THEN (IF IsNeg(x) THEN <<"-", "i", "n", "f">> ELSE <<"i", "n", "f">>)
    ELSE IF IsNeg(x) THEN <<"-">> \o FixedDigits(0 - x.g, 0 - x.d, prec)
    ELSE FixedDigits(x.g, x.d, prec)

\* a * k on f64 for a whole k: the exact product, rounded
Times(a, k) == RoundF64(a.g * k, a.d * k)

-----------------------------------------------------------------------------
(* lph.rs: round_to_step, format_quantity *)

\* value / step >= the bound of HalfUp, for value = (gv, dv) at a decimal half step of
\* step = (gs, ds): dv * gs >= x, and at equality the tie goes to the even
\* mantissa, which is the half itself when the step lies on or above its decimal
HalfBound(dv, gs, ds, x) ==
    \/ dv > x \div gs
    \/ (dv = x \div gs /\ x % gs = 0 /\ ds >= 0)

\* (value / step).round() > j at a decimal half step j + 1/2, j = gv \div gs:
\* f64::round sends a quotient that is the half or above it away from zero, one
\* below it to j.  The f64 quotient rounds to j + 1/2 or above exactly when the
\* exact quotient is at least j + 1/2 less half the spacing of the f64 numbers
\* below j + 1/2; the power of two is that of the binary exponent of j + 1/2,
\* plus 6.
HalfUp(gv, dv, gs, ds) ==
    HalfBound(dv, gs, ds,
              ds * gv - gs * gs * Pow2(IF gv \div gs = 0 THEN 4
                                       ELSE Exponent2(Scale * (gv \div gs) + Scale \div 2) + 6))

\* (value / step).round() for value >= 0 and step > 0.  At a half step (value
\* half a step past a multiple of step, on the decimals) HalfUp decides; off the
\* half steps the f64 quotient lies on the same side of the half as the decimal
\* quotient
RoundQuotient(gv, dv, gs, ds) ==
    IF (2 * gv) % gs = 0 /\ gv % gs # 0
    THEN (gv \div gs) + (IF HalfUp(gv, dv, gs, ds) THEN 1 ELSE 0)
    ELSE (2 * gv + gs) \div (2 * gs)

\* variant: halves rounded to the even multiple
round_to_step_halfeven(value, step) ==
    IF ~IsFinite(step) \/ ~IsFinite(value) \/ step.g <= 0 THEN value
    ELSE LET k0 == Abs(value.g) \div step.g
             r  == Abs(value.g) % step.g
             k  == IF 2 * r > step.g \/ (2 * r = step.g /\ k0 % 2 = 1)
                   THEN k0 + 1 ELSE k0
         IN  IF IsNeg(value) THEN FNeg(RoundF64(k * step.g, k * step.d))
             ELSE RoundF64(k * step.g, k * step.d)

\* variant: the quotient truncated instead of rounded
round_to_step_floor(value, step) ==
    IF ~IsFinite(step) \/ ~IsFinite(value) \/ step.g <= 0 THEN value
    ELSE LET k == Abs(value.g) \div step.g
         IN  IF IsNeg(value) THEN FNeg(RoundF64(k * step.g, k * step.d))
             ELSE RoundF64(k * step.g, k * step.d)

\* if step <= 0.0 { return value }  (value / step).round() * step
\* There is no test for NaN or infinity: a NaN operand gives NaN, an infinite
\* value over a finite step comes back as it is, and over an infinite step the
\* quotient is 0 or NaN and the product NaN.  A step below a hundredth is no
\* number of the model (no arm).
round_to_step(value, step) ==
    CASE IsNaN(step) -> NaN
      [] ~IsNaN(step) /\ FLe(step, Zero) -> value
      [] FGt(step, Zero) /\ IsNaN(value) -> NaN
      [] FGt(step, Zero) /\ ~IsNaN(value) /\ step.kind = "inf" -> NaN
      [] FGt(step, Zero) /\ IsFinite(step) /\ value.kind = "inf" -> value
      [] FGt(step, Zero) /\ IsFinite(step) /\ IsFinite(value) /\ step.g > 0 ->
            IF IsNeg(value)
            THEN FNeg(Times(step, RoundQuotient(0 - value.g, 0 - value.d, step.g, step.d)))
            ELSE Times(step, RoundQuotient(value.g, value.d, step.g, step.d))

\* ceil(log10(1 / step)) on the hundredths of a step, 0 < step < 1: the least p
\* with 10^p * step >= 1
RECURSIVE CeilLog10Inv(_, _)
CeilLog10Inv(gs, p) ==
    IF Pow10(p) * gs >= Scale THEN p ELSE CeilLog10Inv(gs, p + 1)

\* prec: 0 for step >= 1; otherwise (1 / step).log10().ceil().max(0.0): for a
\* negative step or NaN the logarithm is NaN, which .max(0.0) turns into 0, and
\* for -inf it is -inf.  Away from a power of ten the hundredths of the step
\* decide.  At a power of ten the f64 operations do: the quotient 1 / step of
\* the f64 nearest to 0.1 or 0.01 is 10.0 or 100.0 and its logarithm whole, a
\* step above gives a logarithm below the whole number, and a step below gives
\* one above it once the f64 logarithm leaves the whole number: from the third
\* f64 below 0.1 on (d <= -2080, the logarithm 1.0000000000000002) and from the
\* fourth f64 below 0.01 on (d <= -388, the logarithm 2.0000000000000004; for
\* the third the logarithm lies 0.56 of a spacing above 2 and log10 of the
\* platform library returns 2.0).  Every f64 below 1.0 has a logarithm above 0.
\* With step = 0 the precision saturates at u32::MAX = 4294967295, which is no
\* integer of the model (no arm): see format_quantity.
Precision(step) ==
    CASE ~IsFinite(step) -> 0
      [] IsFinite(step) /\ (FLe(One, step) \/ IsNeg(step)) -> 0
      [] IsFinite(step) /\ step.g >= Scale /\ ~FLe(One, step) -> 1
      [] IsFinite(step) /\ step.g = 10 -> IF step.d <= -2080 THEN 2 ELSE 1
      [] IsFinite(step) /\ step.g = 1 -> IF step.d <= -388 THEN 3 ELSE 2
      [] IsFinite(step) /\ step.g > 0 /\ step.g < Scale /\ step.g \notin {1, 10} ->
            CeilLog10Inv(step.g, 0)

\* variant: two decimal places whatever the step
format_quantity_fixed2(quantity, step) == FormatFixed(quantity, 2)

\* format!("{:.prec$}", quantity, prec = prec as usize).  With step = 0 the
\* precision is u32::MAX and format! panics, whatever the quantity
format_quantity(quantity, step) ==
    IF step = Zero THEN FormatPanic ELSE FormatFixed(quantity, Precision(step))

-----------------------------------------------------------------------------
(* lph.rs status(), step 3: the exposure metrics *)

\* const EPSILON: f64 = 1e-8, a value of its own kind: it lies below every
\* positive number the model holds and is only ever a divisor
EPSILON == [kind |-> "epsilon", g |-> 0, d |-> 0]

\* the f64 quotient num / den, kept as its two operands
Ratio(num, den) == [num |-> num, den |-> den]

\* a ratio that is NaN
RatioNaN == Ratio(NaN, One)

RatioIsNaN(ratio) == IsNaN(ratio.num)

\* variant: the legs subtracted
base_delta_minus(amm_base_amount, futures_position) ==
    FAdd(amm_base_amount, FNeg(futures_position))

\* amm_base_amount + futures_position, one f64 addition: the sum of 12.3 and
\* -12.2 is 0.10000000000000142
base_delta(amm_base_amount, futures_position) == FAdd(amm_base_amount, futures_position)

\* |amm_base_amount|.max(|futures_position|).max(EPSILON): a magnitude that is
\* not zero is at least a hundredth, which exceeds EPSILON
base_reference(amm_base_amount, futures_position) ==
    IF IsNaN(FMax(FAbs(amm_base_amount), FAbs(futures_position))) THEN EPSILON
    ELSE IF FMax(FAbs(amm_base_amount), FAbs(futures_position)).g = 0 THEN EPSILON
    ELSE FMax(FAbs(amm_base_amount), FAbs(futures_position))

\* delta / ref on f64, ref > 0: NaN / x and inf / inf are NaN, x / inf is 0,
\* inf / x is inf
Div(delta, ref) ==
    IF IsNaN(delta) THEN RatioNaN
    ELSE IF delta.kind = "inf"
    THEN (IF ref.kind = "inf" THEN RatioNaN ELSE Ratio(delta, One))
    ELSE IF ref.kind = "inf" THEN Ratio(Zero, One)
    ELSE Ratio(delta, ref)

\* base_delta / base_reference
base_delta_ratio(amm_base_amount, futures_position) ==
    Div(base_delta(amm_base_amount, futures_position),
        base_reference(amm_base_amount, futures_position))

\* The f64 quotient num / den against the f64 n where the decimals agree
\* (Scale * num.g = n.g * den.g), all three positive.  The exact quotient X
\* differs from n by n * (Scale * num.d - TieCross) / (Scale * den.g) in units
\* of 2^-DevBits, to first order; fl(X) > n exactly when X lies above the
\* midpoint of n and the f64 after it, fl(X) < n when below the midpoint of n and
\* the f64 before it.  Both sides are scaled by TieScale to stay whole.
TieShift(n) == ExponentOf(n.g, n.d) + 6

TieScale(n) == Pow2(Max(0, 0 - TieShift(n)) + 1)

\* half the spacing of the f64 numbers above n, times Scale * den.g
TieHalfUlp(den, n) == Scale * den.g * Pow2(Max(TieShift(n), 0) + 1)

\* n is a power of two: the f64 numbers below it are spaced half as wide
TieAtPow2(n) == n.d = 0 /\ IsPow2(n.g, Exponent2(n.g))

TieCross(den, n) == n.g * den.d + n.d * den.g

\* the mantissa of the positive f64 n is odd
MantOdd(n) ==
    (MantissaMod(n.g, ExponentOf(n.g, n.d))
        + n.d \div HundredthUlp(ExponentOf(n.g, n.d))) % (2 * Scale) = Scale

\* the sign of the second-order term when the first-order terms tie at the
\* upper midpoint, and at the lower one
TieSignUp(den, n) ==
    Sgn(den.d) * Sgn(IF TieShift(n) >= 0 THEN n.d + Scale * Pow2(TieShift(n))
                     ELSE n.d * Pow2(0 - TieShift(n)) + Scale)

TieSignDown(den, n) ==
    Sgn(den.d) * Sgn(IF TieShift(n) >= 0
                     THEN 2 * n.d - (IF TieAtPow2(n) THEN 1 ELSE 2) * Scale * Pow2(TieShift(n))
                     ELSE 2 * n.d * Pow2(0 - TieShift(n))
                            - (IF TieAtPow2(n) THEN 1 ELSE 2) * Scale)

QuotAboveAt(dd, up, k, sign, odd) ==
    \/ dd > up \div k
    \/ (dd = up \div k /\ up % k = 0 /\ (sign < 0 \/ (sign = 0 /\ odd)))

QuotBelowAt(dd, lo, k, sign, odd) ==
    \/ dd < lo \div k
    \/ (dd = lo \div k /\ lo % k # 0)
    \/ (dd = lo \div k /\ lo % k = 0 /\ (sign > 0 \/ (sign = 0 /\ odd)))

\* fl(num / den) > n
QuotAbove(num, den, n) ==
    QuotAboveAt(num.d, TieHalfUlp(den, n) + TieCross(den, n) * TieScale(n),
                Scale * TieScale(n), TieSignUp(den, n), MantOdd(n))

\* fl(num / den) < n
QuotBelow(num, den, n) ==
    QuotBelowAt(num.d,
                TieCross(den, n) * TieScale(n)
                    - (IF TieAtPow2(n) THEN TieHalfUlp(den, n) \div 2
                       ELSE TieHalfUlp(den, n)),
                Scale * TieScale(n), TieSignDown(den, n), MantOdd(n))

\* fl(num / den) <= n for finite operands, den > 0: decimals that differ decide;
\* where they agree the rounding of the three f64 operands and of the quotient
\* does.  (A threshold n below a hundredth that is not zero has no arm.)
QuotLeq(num, den, n) ==
    IF Scale * num.g # n.g * den.g THEN Scale * num.g < n.g * den.g
    ELSE CASE num.g = 0 /\ n.d = 0 -> num.d <= 0
           [] num.g > 0 -> ~QuotAbove(num, den, n)
           [] num.g < 0 -> ~QuotBelow(FNeg(num), den, FNeg(n))

\* num / EPSILON <= n: zero stays zero, and a number of a hundredth or more
\* divided by 1e-8 is of magnitude 999999.99 at least, which lies beyond every
\* n of magnitude below 999999.  (A larger n has no arm.)
QuotLeqEpsilon(num, n) ==
    CASE num = Zero -> FLe(Zero, n)
      [] num.g # 0 /\ Abs(n.g) < 99999900 -> IsNeg(num)

\* base_delta_ratio <= n on f64: false when either side is NaN
RatioLeq(ratio, n) ==
    IF IsNaN(ratio.num) \/ IsNaN(n) THEN FALSE
    ELSE IF ratio.num.kind = "inf" \/ n.kind = "inf" THEN FLe(ratio.num, n)
    ELSE IF ratio.den = EPSILON THEN QuotLeqEpsilon(ratio.num, n)
    ELSE QuotLeq(ratio.num, ratio.den, n)

-----------------------------------------------------------------------------
(* perps.rs: the order sink *)

SYMBOL == "BNBUSDC"

\* get_orderbook: send().await? then .json::<Orderbook>().await?
get_orderbook(v) ==
    IF ~v.sent THEN [ok |-> FALSE, bids |-> <<>>, asks |-> <<>>] ELSE v.book

\* place_order: send().await?, text().await?, serde_json::from_str(&body)?; the
\* HTTP status is printed, not tested
place_order(v) ==
    IF v.post = "send_err" THEN "Err"
    ELSE IF v.body = "unreadable" THEN "Err"
    ELSE IF v.body # "order" THEN "Err"
    ELSE "Ok"

\* variant: open_sell submitting its order whatever the order book request gave
open_sell_blind(symbol, amount, v) ==
    LET book  == get_orderbook(v)
        price == IF book.ok /\ Len(book.asks) > 0 THEN book.asks[1] ELSE "0"
        req   == [symbol |-> symbol, side |-> "SELL", position_side |-> "SHORT",
                  order_type |-> "LIMIT", quantity |-> amount,
                  price |-> price, reduce_only |-> FALSE,
                  time_in_force |-> "GTC"]
    IN  [result |-> place_order(v), placed |-> <<req>>]

\* open_sell: limit SELL at the best ask on the SHORT side
open_sell(symbol, amount, v) ==
    IF ~get_orderbook(v).ok THEN [result |-> "Err", placed |-> <<>>]
    ELSE IF Len(get_orderbook(v).asks) = 0 THEN [result |-> "Err", placed |-> <<>>]
    ELSE LET req == [symbol |-> symbol, side |-> "SELL", position_side |-> "SHORT",
                     order_type |-> "LIMIT", quantity |-> amount,
                     price |-> get_orderbook(v).asks[1], reduce_only |-> FALSE,
                     time_in_force |-> "GTC"]
         IN  [result |-> place_order(v), placed |-> <<req>>]

\* variant: close_sell without the reduce-only flag
close_sell_noreduce(symbol, amount, v) ==
    IF ~get_orderbook(v).ok THEN [result |-> "Err", placed |-> <<>>]
    ELSE IF Len(get_orderbook(v).bids) = 0 THEN [result |-> "Err", placed |-> <<>>]
    ELSE LET req == [symbol |-> symbol, side |-> "BUY", position_side |-> "SHORT",
                     order_type |-> "LIMIT", quantity |-> amount,
                     price |-> get_orderbook(v).bids[1], reduce_only |-> FALSE,
                     time_in_force |-> "GTC"]
         IN  [result |-> place_order(v), placed |-> <<req>>]

\* close_sell: reduce-only limit BUY at the best bid on the SHORT side
close_sell(symbol, amount, v) ==
    IF ~get_orderbook(v).ok THEN [result |-> "Err", placed |-> <<>>]
    ELSE IF Len(get_orderbook(v).bids) = 0 THEN [result |-> "Err", placed |-> <<>>]
    ELSE LET req == [symbol |-> symbol, side |-> "BUY", position_side |-> "SHORT",
                     order_type |-> "LIMIT", quantity |-> amount,
                     price |-> get_orderbook(v).bids[1], reduce_only |-> TRUE,
                     time_in_force |-> "GTC"]
         IN  [result |-> place_order(v), placed |-> <<req>>]

-----------------------------------------------------------------------------
(* lph.rs: LPHStrategy::new *)

\* new(config, ..) -> Self: the thresholds are copied into the engine as given
new(config) == [ok |-> TRUE, engine |-> [n |-> config.n, m |-> config.m]]

-----------------------------------------------------------------------------
(* lph.rs: LPHStrategy::execute *)

\* variant: the magnitude test without abs()
Triggers_noabs(n, m, ratio, delta) ==
    /\ ~(RatioLeq(ratio, n) \/ FLe(delta, m))
    /\ ~FEq(delta, Zero)

\* the early returns of execute: TRUE when it goes on to place an order.
\* `base_delta_ratio <= n || base_delta.abs() <= m` is false when the comparison
\* it rests on has a NaN operand, so a NaN does not return early.
Triggers(n, m, ratio, delta) ==
    /\ ~(RatioLeq(ratio, n) \/ FLe(FAbs(delta), m))
    /\ ~FEq(delta, Zero)

\* variant: the two directions exchanged
OrderCall_swapped(m, delta) ==
    LET Call(quantity, quantity_str) ==
            [fn |-> IF quantity_str = FormatPanic THEN "panic"
                    ELSE IF FGt(delta, Zero) THEN "close_sell" ELSE "open_sell",
             symbol |-> SYMBOL, quantity |-> quantity, amount |-> quantity_str]
        Format(quantity) == Call(quantity, format_quantity(quantity, m))
    IN  Format(round_to_step(FAbs(delta), m))

\* the sink call execute makes once triggered: which function, with which
\* quantity; none (fn = "panic") when format_quantity panicked
OrderCall(m, delta) ==
    LET Call(quantity, quantity_str) ==
            [fn |-> IF quantity_str = FormatPanic THEN "panic"
                    ELSE IF FGt(delta, Zero) THEN "open_sell" ELSE "close_sell",
             symbol |-> SYMBOL, quantity |-> quantity, amount |-> quantity_str]
        Format(quantity) == Call(quantity, format_quantity(quantity, m))
    IN  Format(round_to_step(FAbs(delta), m))

\* variant: the result of the sink call is dropped and execute returns Ok
execute_ignore(c, ratio, delta, v) ==
    IF ~Triggers(c.n, c.m, ratio, delta)
    THEN [calls |-> <<>>, placed |-> <<>>, result |-> "Ok"]
    ELSE LET Returned(order, sink) ==
                 [calls |-> <<order>>, placed |-> sink.placed, result |-> "Ok"]
             Submit(order) ==
                 IF order.fn = "panic"
                 THEN [calls |-> <<>>, placed |-> <<>>, result |-> "panic"]
                 ELSE Returned(order,
                               IF order.fn = "open_sell"
                               THEN open_sell(order.symbol, order.amount, v)
                               ELSE close_sell(order.symbol, order.amount, v))
         IN  Submit(OrderCall(c.m, delta))

\* one call execute(base_delta_ratio, base_delta) with the venue answering v:
\* the sink calls made, the orders submitted and the result.  When
\* format_quantity panics no sink call is made and execute does not return
execute(c, ratio, delta, v) ==
    IF ~Triggers(c.n, c.m, ratio, delta)
    THEN [calls |-> <<>>, placed |-> <<>>, result |-> "Ok"]
    ELSE LET Returned(order, sink) ==
                 [calls |-> <<order>>, placed |-> sink.placed, result |-> sink.result]
             Submit(order) ==
                 IF order.fn = "panic"
                 THEN [calls |-> <<>>, placed |-> <<>>, result |-> "panic"]
                 ELSE Returned(order,
                               IF order.fn = "open_sell"
                               THEN open_sell(order.symbol, order.amount, v)
                               ELSE close_sell(order.symbol, order.amount, v))
         IN  Submit(OrderCall(c.m, delta))

-----------------------------------------------------------------------------
(* The chain and the PositionManager contract (contracts.rs), as read at a block *)

BASE_TOKEN_ADDRESS == "0xbb4CdB9CBd36B01bD1cBaEBF2De08d9173bc095c"

USDT_TOKEN_ADDRESS == "0x55d398326f99059fF775485246999027B3197955"

OTHER_TOKEN_ADDRESS == "0x0000000000000000000000000000000000000003"

\* The position NFTs are 1, 2 and 3: 1 is BASE/USDT, 2 is USDT/BASE, 3 pairs BASE
\* with another token.
Token0(t) == IF t = 2 THEN USDT_TOKEN_ADDRESS ELSE BASE_TOKEN_ADDRESS

Token1(t) == IF t = 1 THEN USDT_TOKEN_ADDRESS
             ELSE IF t = 2 THEN BASE_TOKEN_ADDRESS ELSE OTHER_TOKEN_ADDRESS

\* positions(tokenId).liquidity at block b: position 3 holds no liquidity
LiquidityAt(t, b) == IF t = 3 THEN 0 ELSE 40 + t

\* what removing all liquidity / collecting all fees would pay at block b, per
\* token of the pair (raw integers; the values differ from block to block)
BaseRawAt(t, b) == 1000 + 100 * t + 25 * b

QuoteRawAt(t, b) == 2000 + 10 * t + b

BaseFeeAt(t, b) == 10 * t + b

QuoteFeeAt(t, b) == 20 * t + b

\* balanceOf(owner) at block b
balanceOf(ch, b) == Len(ch[b])

\* tokenOfOwnerByIndex(owner, index) at block b
tokenOfOwnerByIndex(ch, b, index) == ch[b][index + 1]

\* decreaseLiquidity(...).call() at block b: <<amount0, amount1>>
decreaseLiquidity(t, b) ==
    IF Token0(t) = BASE_TOKEN_ADDRESS
    THEN <<BaseRawAt(t, b), QuoteRawAt(t, b)>>
    ELSE <<QuoteRawAt(t, b), BaseRawAt(t, b)>>

\* collect(...).call() at block b: <<amount0, amount1>>
collect(t, b) ==
    IF Token0(t) = BASE_TOKEN_ADDRESS
    THEN <<BaseFeeAt(t, b), QuoteFeeAt(t, b)>>
    ELSE <<QuoteFeeAt(t, b), BaseFeeAt(t, b)>>

\* the owner's list after one block: unchanged, one position transferred away
\* (the last one takes its index), or one received (appended)
OwnedNext(o, maxOwned) ==
    LET RemoveAt(i) ==
            IF i = Len(o) THEN SubSeq(o, 1, Len(o) - 1)
            ELSE [j \in 1..(Len(o) - 1) |-> IF j = i THEN o[Len(o)] ELSE o[j]]
    IN  {o} \cup {RemoveAt(i) : i \in 1..Len(o)}
        \cup {Append(o, t) : t \in {x \in {1, 2, 3} :
                                     Len(o) < maxOwned /\ \A j \in 1..Len(o) : o[j] # x}}

-----------------------------------------------------------------------------
(* position_manager.rs: sync_lp *)

\* outcomes of the two simulations of one loop iteration: each may answer Err
SimOutcomes == {"ok", "decrease_fails", "collect_fails", "both_fail"}

\* the PositionData one loop iteration builds for index, all reads at block b
PositionDataAt(ch, b, index, sim) ==
    LET token_id  == tokenOfOwnerByIndex(ch, b, index)
        liquidity == LiquidityAt(token_id, b)
        withdrawable ==
            IF liquidity > 0 /\ sim \notin {"decrease_fails", "both_fail"}
            THEN decreaseLiquidity(token_id, b) ELSE <<0, 0>>
        collectable ==
            IF sim \notin {"collect_fails", "both_fail"}
            THEN collect(token_id, b) ELSE <<0, 0>>
    IN  [token_id |-> token_id,
         token0 |-> Token0(token_id),
         token1 |-> Token1(token_id),
         liquidity |-> liquidity,
         withdrawable_amount0 |-> withdrawable[1],
         withdrawable_amount1 |-> withdrawable[2],
         collectable_amount0 |-> collectable[1],
         collectable_amount1 |-> collectable[2]]

\* TRUE when an iteration with outcome sim took the Err(_) arm of a simulation:
\* decreaseLiquidity is only simulated for a position with liquidity
SimSwallowed(token_id, b, sim) ==
    \/ (sim \in {"decrease_fails", "both_fail"} /\ LiquidityAt(token_id, b) > 0)
    \/ sim \in {"collect_fails", "both_fail"}

\* variant: the table is rebuilt from the entry being written
Insert_fresh(table, data) == [t \in {data.token_id} |-> data]

\* variant: the write is held back until the whole sync has succeeded
Insert_staged(table, data) == table

\* BTreeMap::insert(token_id, position_data)
Insert(table, data) ==
    [t \in (DOMAIN table) \cup {data.token_id} |->
        IF t = data.token_id THEN data ELSE table[t]]

\* variant: each read is made at the chain head of its moment
ReadBlock_latest(pinned, latest) == latest

\* the block sync_lp's contract reads are made at: the one fetched at its start
ReadBlock(pinned, latest) == pinned


-----------------------------------------------------------------------------
(* lph.rs: status *)

\* const UNISWAP_TOKEN_DECIMALS: u32 = 18
UNISWAP_TOKEN_DECIMALS == 18

\* u256_to_f64(value, decimals): whole_part as f64 + fractional_part as f64 /
\* divisor as f64.  A raw amount is counted in units of 10^(decimals - 2), so the
\* divisor 10^decimals is Scale of them: the whole part is a whole f64, the
\* quotient is the f64 nearest to the hundredths, and their sum is rounded.
u256_to_f64(value, decimals) ==
    FAdd(Finite((value \div Scale) * Scale, 0), F64Of(value % Scale))

\* variant: only token0 is compared
PositionMatches_token0(pos) ==
    pos.token0 = BASE_TOKEN_ADDRESS \/ pos.token0 = USDT_TOKEN_ADDRESS

\* the closure of find(): the pair matches in either token order
PositionMatches(pos) ==
    \/ (pos.token0 = BASE_TOKEN_ADDRESS /\ pos.token1 = USDT_TOKEN_ADDRESS)
    \/ (pos.token0 = USDT_TOKEN_ADDRESS /\ pos.token1 = BASE_TOKEN_ADDRESS)

\* positions().values().find(..): the first match in key order, if any
FindPosition(table) ==
    LET ids == {t \in DOMAIN table : PositionMatches(table[t])}
    IN  IF ids = {} THEN [found |-> FALSE, id |-> 0]
        ELSE [found |-> TRUE, id |-> CHOOSE t \in ids : \A u \in ids : t <= u]

\* variant: only amount0 is read as the base side
AmmAmounts_token0(pos) ==
    [amm_base_amount |-> u256_to_f64(pos.withdrawable_amount0, UNISWAP_TOKEN_DECIMALS),
     amm_usdt_amount |-> u256_to_f64(pos.withdrawable_amount1, UNISWAP_TOKEN_DECIMALS),
     amm_collectable_base |-> u256_to_f64(pos.collectable_amount0, UNISWAP_TOKEN_DECIMALS),
     amm_collectable_usdt |-> u256_to_f64(pos.collectable_amount1, UNISWAP_TOKEN_DECIMALS)]

\* the four AMM amounts of the matched position, base side and usdt side
AmmAmounts(pos) ==
    LET baseFirst == pos.token0 = BASE_TOKEN_ADDRESS
    IN  [amm_base_amount |->
            u256_to_f64(IF baseFirst THEN pos.withdrawable_amount0
                        ELSE pos.withdrawable_amount1, UNISWAP_TOKEN_DECIMALS),
         amm_usdt_amount |->
            u256_to_f64(IF baseFirst THEN pos.withdrawable_amount1
                        ELSE pos.withdrawable_amount0, UNISWAP_TOKEN_DECIMALS),
         amm_collectable_base |->
            u256_to_f64(IF baseFirst THEN pos.collectable_amount0
                        ELSE pos.collectable_amount1, UNISWAP_TOKEN_DECIMALS),
         amm_collectable_usdt |->
            u256_to_f64(IF baseFirst THEN pos.collectable_amount1
                        ELSE pos.collectable_amount0, UNISWAP_TOKEN_DECIMALS)]

\* variant: the first record is taken whatever its symbol
FindSymbol_first(list) == IF Len(list) = 0 THEN 0 ELSE 1

\* positions.iter().find(|p| p.symbol == self.symbol): index of the first, or 0
FindSymbol(list) ==
    LET hits == {i \in 1..Len(list) : list[i].symbol = SYMBOL}
    IN  IF hits = {} THEN 0 ELSE CHOOSE i \in hits : \A j \in hits : i <= j

\* variant: parse().unwrap_or(0.0)
ParseField_default(s) == [ok |-> TRUE, val |-> ParseF64(s).val]

\* field.parse::<f64>().map_err(..)?
ParseField(s) == ParseF64(s)

\* variant: the two values added instead of multiplied
Mul_sum(a, b) == FAdd(a, b)

\* a * b on f64: NaN propagates, 0 * inf is NaN, a finite product is rounded.
\* The product of two numbers neither of which is whole is in general no number
\* of the model (no arm).
Mul(a, b) ==
    LET IsWhole(x) == IsFinite(x) /\ x.d = 0 /\ x.g % Scale = 0
    IN  CASE IsNaN(a) \/ IsNaN(b) -> NaN
          [] ~IsNaN(a) /\ ~IsNaN(b) /\ (~IsFinite(a) \/ ~IsFinite(b)) ->
                IF a = Zero \/ b = Zero THEN NaN
                ELSE IF IsNeg(a) = IsNeg(b) THEN Inf ELSE NegInf
          [] IsFinite(a) /\ IsWhole(b) -> Times(a, b.g \div Scale)
          [] IsFinite(a) /\ IsFinite(b) /\ ~IsWhole(b) /\ IsWhole(a) ->
                Times(b, a.g \div Scale)

NoSnapshot == [block_number |-> 0]

\* status() from the body of get_position's response on: select the record,
\* parse its fields, compute the metrics.  amm holds the four AMM amounts and
\* block_number; resp.ok = FALSE is a body that is no list of Position records.
StatusFromCex(amm, resp) ==
    IF ~resp.ok THEN [ok |-> FALSE, err |-> "cex", snapshot |-> NoSnapshot]
    ELSE IF FindSymbol(resp.list) = 0
    THEN [ok |-> FALSE, err |-> "cex_match", snapshot |-> NoSnapshot]
    ELSE
    LET binance_position == resp.list[FindSymbol(resp.list)]
        futures_position == ParseField(binance_position.position_amt)
        unrealized_pnl   == ParseField(binance_position.unrealized_pnl)
        base_price_usdt  == ParseField(binance_position.mark_price)
        amm_base_value_usdt  == Mul(amm.amm_base_amount, base_price_usdt.val)
        amm_total_value_usdt == FAdd(amm_base_value_usdt, amm.amm_usdt_amount)
    IN  IF ~futures_position.ok \/ ~unrealized_pnl.ok \/ ~base_price_usdt.ok
        THEN [ok |-> FALSE, err |-> "parse", snapshot |-> NoSnapshot]
        ELSE [ok |-> TRUE, err |-> "none", snapshot |->
                [block_number |-> amm.block_number,
                 symbol |-> SYMBOL,
                 amm_base_amount |-> amm.amm_base_amount,
                 amm_usdt_amount |-> amm.amm_usdt_amount,
                 amm_collectable_base |-> amm.amm_collectable_base,
                 amm_collectable_usdt |-> amm.amm_collectable_usdt,
                 amm_collectable_value_usdt |->
                    FAdd(Mul(amm.amm_collectable_base, base_price_usdt.val),
                         amm.amm_collectable_usdt),
                 futures_position |-> futures_position.val,
                 unrealized_pnl |-> unrealized_pnl.val,
                 futures_timestamp |-> binance_position.update_time,
                 base_price_usdt |-> base_price_usdt.val,
                 base_delta |-> base_delta(amm.amm_base_amount, futures_position.val),
                 base_delta_ratio |->
                    base_delta_ratio(amm.amm_base_amount, futures_position.val),
                 amm_total_value_usdt |-> amm_total_value_usdt,
                 total_value_usdt |-> FAdd(amm_total_value_usdt, unrealized_pnl.val)]]

\* the record of the collaborator calls of one status(): a call is entered as
\* issued, with the block it read (0 when it read none), and settled when it returns
Issued(l, fn, state, block) == Append(l, [fn |-> fn, state |-> state, block |-> block])

Settled(l, state) == [l EXCEPT ![Len(l)].state = state]

-----------------------------------------------------------------------------
(* monitor.rs: LPHMonitor::status, the monitor before it became LPHStrategy *)

\* const BASE_DECIMALS: u32 = 18; const USDT_DECIMALS: u32 = 6
BASE_DECIMALS == 18

USDT_DECIMALS == 6

\* the two withdrawable amounts of the matched position; the usdt side is read
\* with 6 decimals, and there are no collectable amounts
MonitorAmounts(pos) ==
    LET baseFirst == pos.token0 = BASE_TOKEN_ADDRESS
    IN  [amm_base_amount |->
            u256_to_f64(IF baseFirst THEN pos.withdrawable_amount0
                        ELSE pos.withdrawable_amount1, BASE_DECIMALS),
         amm_usdt_amount |->
            u256_to_f64(IF baseFirst THEN pos.withdrawable_amount1
                        ELSE pos.withdrawable_amount0, USDT_DECIMALS)]

\* status() of the monitor from the body of get_position's response on: it reads
\* isolated_wallet as the futures balance and adds it to the total.  now is what
\* SystemTime::now().duration_since(UNIX_EPOCH) gives: Err for a clock set before
\* the epoch, otherwise the milliseconds
MonitorFromCex(amm, resp, now) ==
    IF ~resp.ok THEN [ok |-> FALSE, err |-> "cex", snapshot |-> NoSnapshot]
    ELSE IF FindSymbol(resp.list) = 0
    THEN [ok |-> FALSE, err |-> "cex_match", snapshot |-> NoSnapshot]
    ELSE
    LET binance_position     == resp.list[FindSymbol(resp.list)]
        futures_position     == ParseF64(binance_position.position_amt)
        futures_balance_usdt == ParseF64(binance_position.isolated_wallet)
        base_price_usdt      == ParseF64(binance_position.mark_price)
        amm_base_value_usdt  == Mul(amm.amm_base_amount, base_price_usdt.val)
        amm_total_value_usdt == FAdd(amm_base_value_usdt, amm.amm_usdt_amount)
    IN  IF ~futures_position.ok \/ ~futures_balance_usdt.ok \/ ~base_price_usdt.ok
        THEN [ok |-> FALSE, err |-> "parse", snapshot |-> NoSnapshot]
        ELSE IF ~now.ok
        THEN [ok |-> FALSE, err |-> "clock", snapshot |-> NoSnapshot]
        ELSE [ok |-> TRUE, err |-> "none", snapshot |->
                [timestamp |-> now.millis,
                 block_number |-> amm.block_number,
                 symbol |-> SYMBOL,
                 amm_base_amount |-> amm.amm_base_amount,
                 amm_usdt_amount |-> amm.amm_usdt_amount,
                 futures_position |-> futures_position.val,
                 futures_balance_usdt |-> futures_balance_usdt.val,
                 futures_timestamp |-> binance_position.update_time,
                 base_price_usdt |-> base_price_usdt.val,
                 base_delta |-> base_delta(amm.amm_base_amount, futures_position.val),
                 base_delta_ratio |->
                    base_delta_ratio(amm.amm_base_amount, futures_position.val),
                 amm_total_value_usdt |-> amm_total_value_usdt,
                 total_value_usdt |-> FAdd(amm_total_value_usdt, futures_balance_usdt.val)]]

-----------------------------------------------------------------------------
(* examples/lph/src/main.rs: the driver *)

\* variant: an error inside status() is dropped and status() goes on to the CEX read
AfterStatus_resume(ok) == IF ok THEN "push" ELSE "cex"

\* variant: the error of status() is ignored and the loop goes on
AfterStatus_ignore(ok) == "push"

\* `monitor.status().await?`: where the loop goes once status() has returned
AfterStatus(ok) == IF ok THEN "push" ELSE "exited"

-----------------------------------------------------------------------------
(* Bounds and input sets *)

MaxDelta == 130

MaxRatio == 6

MaxBlock == 2

MaxCycles == 2

MaxOwned == 2

\* ratio thresholds n (hundredths): n = -0.05, 0, 0.05
Thresholds == {-5, 0, 5}

\* the thresholds are f64 values read from the configuration; the steps m are
\* 0.01, 0.1, 0.2, 0.25, 1 and 2.5
Configs ==
    {[n |-> F64Of(n), m |-> F64Of(m)] : n \in Thresholds, m \in {1, 10, 20, 25, 100, 250}}

\* a non-positive step, m = -0.1 or m = 0, as a configuration file may carry it
InvalidConfigs == {[n |-> F64Of(n), m |-> F64Of(m)] : n \in Thresholds, m \in {-10, 0}}

\* the ratios a caller passes: those at a threshold, next to one, and the two
\* ends of the range
Ratios ==
    {Ratio(F64Of(r), One) :
        r \in {x \in (-MaxRatio)..MaxRatio :
                    Abs(x) = MaxRatio \/ \E n \in Thresholds : Abs(x - n) <= 1}}

\* Position records of the venue: the configured symbol with well-formed fields,
\* another symbol, and a record with an unparsable unrealized_pnl
GoodPosition ==
    [symbol |-> SYMBOL, position_amt |-> <<"-", "1", "1">>,
     unrealized_pnl |-> <<"1", ".", "5">>, mark_price |-> <<"6", "0", "0">>,
     isolated_wallet |-> <<"2", "5", ".", "5">>, update_time |-> 1700]

OtherPosition ==
    [symbol |-> "ETHUSDC", position_amt |-> <<"2">>,
     unrealized_pnl |-> <<"0", ".", "2", "5">>, mark_price |-> <<"3", "0", "0", "0">>,
     isolated_wallet |-> <<"0">>, update_time |-> 1600]

BadPnlPosition == [GoodPosition EXCEPT !.unrealized_pnl = <<>>]

\* the body of get_position's response: no list of Position records (ok = FALSE:
\* it cannot be read or deserialized), or a list.  Besides the records above
\* there are records with an unparsable position_amt or mark_price; records
\* whose fields parse though they are no plain decimal (NaN, an infinity, an
\* exponent); and a position whose sum with the base amount 12.25 is no decimal
CexResponses ==
    {[ok |-> FALSE, list |-> <<>>]} \cup
    {[ok |-> TRUE, list |-> l] :
        l \in {<<>>, <<GoodPosition>>, <<OtherPosition>>, <<OtherPosition, GoodPosition>>,
               <<BadPnlPosition>>,
               <<[GoodPosition EXCEPT !.position_amt = <<"-">>]>>,
               <<[GoodPosition EXCEPT !.mark_price = <<"6", "x", "0">>]>>,
               <<[GoodPosition EXCEPT !.position_amt = <<"N", "a", "N">>]>>,
               <<[GoodPosition EXCEPT !.position_amt = <<"-", "i", "n", "f">>]>>,
               <<[GoodPosition EXCEPT
                    !.unrealized_pnl = <<"I", "n", "f", "i", "n", "i", "t", "y">>]>>,
               <<[GoodPosition EXCEPT !.mark_price = <<"6", ".", "e", "2">>]>>,
               <<[GoodPosition EXCEPT !.position_amt = <<"-", "1", "2", ".", "2">>]>>}}

\* the arguments of one execute() call given by the caller: every delta of the
\* range with the ratios around the thresholds, deltas of some thousands at and
\* beside half steps, and the ratios and deltas that are no finite number, with
\* one another and with finite ones
DirectCalls ==
    LET Deltas == {F64Of(d) : d \in (-MaxDelta)..MaxDelta}
                    \cup {F64Of(d) : d \in {-1310705, -1000025, -250035, 100025, 100030,
                                            400005, 1250015, 1310715}}
        NonFiniteRatios == {RatioNaN, Ratio(Inf, One), Ratio(NegInf, One)}
        NonFiniteDeltas == {NaN, Inf, NegInf}
        EdgeDeltas == {F64Of(d) : d \in {-73, -5, 0, 5, 73}}
        Call(r, d) == [src |-> "call", amm |-> Zero, fut |-> Zero, ratio |-> r, delta |-> d]
    IN  {Call(r, d) : r \in Ratios, d \in Deltas}
        \cup {Call(r, d) : r \in NonFiniteRatios, d \in NonFiniteDeltas \cup EdgeDeltas}
        \cup {Call(r, d) : r \in Ratios, d \in NonFiniteDeltas}

\* the arguments of one execute() call taken from a snapshot of the legs (amm,
\* fut): withdrawable base amounts (raw) and futures positions (hundredths) fed
\* through the snapshot metrics, and the futures positions that are no finite
\* number (the texts "NaN", "inf" and "-inf" parse).  Among the sums are
\* 12.3 - 12.2 = 0.10000000000000142, 12.1 - 12.25 = -0.15000000000000036 and
\* 12.35 - 10 = 2.3499999999999996, and among the ratios 0.5 / 10, which is
\* 0.05, and 0.10000000000000009 / 2, which is above it
SnapshotCalls ==
    LET AmmBaseAmounts == {0, 110, 200, 300, 500, 1000, 1200, 1210, 1230, 1235, 1250}
        FuturesPositions ==
            {0, -100, -190, -500, -950, -1000, -1020, -1200, -1220, -1225, 500}
        Legs == {<<u256_to_f64(a, UNISWAP_TOKEN_DECIMALS), p>> :
                    a \in AmmBaseAmounts,
                    p \in {F64Of(q) : q \in FuturesPositions} \cup {NaN, Inf, NegInf}}
    IN  {[src |-> "snapshot", amm |-> l[1], fut |-> l[2],
          ratio |-> base_delta_ratio(l[1], l[2]), delta |-> base_delta(l[1], l[2])] :
            l \in Legs}

-----------------------------------------------------------------------------
(* Initial values *)

NoExec == [calls |-> <<>>, placed |-> <<>>, result |-> "pending"]

NoVenue ==
    [sent |-> FALSE, book |-> [ok |-> FALSE, bids |-> <<>>, asks |-> <<>>],
     post |-> "send_err", body |-> "unreadable"]

NoSync ==
    [block_number |-> 0, balance |-> 0, index |-> 0, step |-> "none", token_id |-> 0,
     sim |-> "ok", token_ids |-> <<>>, liquidity |-> 0, withdrawable |-> <<0, 0>>]

NoLocals ==
    [block_number |-> 0, amm_base_amount |-> Zero, amm_usdt_amount |-> Zero,
     amm_collectable_base |-> Zero, amm_collectable_usdt |-> Zero]

NoCex == [ok |-> FALSE, list |-> <<>>]

\* the driver before its first cycle: an empty positions table
CycleInit ==
    /\ positions = <<>>
    /\ pc = "idle"
    /\ cycle = 1
    /\ sync = NoSync
    /\ st = NoLocals
    /\ cex = NoCex
    /\ snapshot = NoSnapshot
    /\ failed = "none"
    /\ pushed = {}
    /\ log = <<>>
    /\ swallowed = {}

-----------------------------------------------------------------------------
(* The poll loop of main.rs: status(), push_message, sleep, with the chain      *)
(* advancing and the collaborators failing at any call                          *)

Latest == Len(chain)

Init ==
    /\ cfg = [n |-> F64Of(5), m |-> F64Of(10)]
    /\ call = [src |-> "none", amm |-> Zero, fut |-> Zero, ratio |-> Ratio(Zero, One),
               delta |-> Zero]
    /\ venue = NoVenue
    /\ lastExec = NoExec
    /\ chain \in {<<o>> : o \in {<<>>, <<3>>, <<1>>, <<1, 2>>}}
    /\ CycleInit

\* a block is produced while the driver runs
ChainAdvance ==
    /\ pc # "exited"
    /\ Latest < MaxBlock
    /\ \E o \in OwnedNext(chain[Latest], MaxOwned) : chain' = Append(chain, o)
    /\ UNCHANGED <<positions, pc, cycle, sync, st, cex, snapshot, failed, pushed, log,
                   swallowed>>
    /\ UNCHANGED execVars

\* a request of sync_lp failed: `?` returns the error through status() to main
SyncFails ==
    /\ sync' = NoSync
    /\ pc' = AfterStatus(FALSE)
    /\ failed' = "sync"
    /\ positions' = positions
    /\ swallowed' = swallowed

\* status() is entered and sync_lp starts: get_block(BlockId::latest()) answers
\* with the head, which becomes block_id, or fails
StatusSyncBegin ==
    /\ pc = "idle"
    /\ \E rpcOk \in BOOLEAN :
        IF rpcOk
        THEN /\ sync' = [NoSync EXCEPT !.block_number = Latest]
             /\ pc' = "balance"
             /\ failed' = failed
             /\ positions' = positions
             /\ swallowed' = swallowed
             /\ log' = Issued(log, "sync_lp", "running", Latest)
        ELSE /\ SyncFails
             /\ log' = Issued(log, "sync_lp", "err", 0)
    /\ UNCHANGED <<chain, cycle, st, cex, snapshot, pushed>>
    /\ UNCHANGED execVars

\* balanceOf(owner).block(block_id) answers or fails
SyncBalance ==
    /\ pc = "balance"
    /\ \E rpcOk \in BOOLEAN :
        IF rpcOk
        THEN /\ sync' = [sync EXCEPT
                    !.balance = balanceOf(chain, ReadBlock(sync.block_number, Latest)),
                    !.index = 0,
                    !.step = "token"]
             /\ pc' = "sync"
             /\ failed' = failed
             /\ positions' = positions
             /\ swallowed' = swallowed
             /\ log' = log
        ELSE /\ SyncFails
             /\ log' = Settled(log, "err")
    /\ UNCHANGED <<chain, cycle, st, cex, snapshot, pushed>>
    /\ UNCHANGED execVars

\* loop iteration, step 1: tokenOfOwnerByIndex(owner, index).block(block_id)
SyncTokenOfOwner ==
    /\ pc = "sync"
    /\ sync.step = "token"
    /\ sync.index < sync.balance
    /\ \E rpcOk \in BOOLEAN :
        IF rpcOk
        THEN /\ sync' = [sync EXCEPT
                    !.token_id = tokenOfOwnerByIndex(chain,
                                    ReadBlock(sync.block_number, Latest), sync.index),
                    !.step = "info"]
             /\ pc' = pc
             /\ failed' = failed
             /\ positions' = positions
             /\ swallowed' = swallowed
             /\ log' = log
        ELSE /\ SyncFails
             /\ log' = Settled(log, "err")
    /\ UNCHANGED <<chain, cycle, st, cex, snapshot, pushed>>
    /\ UNCHANGED execVars

\* loop iteration, step 2: positions(token_id).block(block_id); with no
\* liquidity the withdrawal is not simulated
SyncPositionInfo ==
    /\ pc = "sync"
    /\ sync.step = "info"
    /\ \E rpcOk \in BOOLEAN :
        IF rpcOk
        THEN /\ sync' = [sync EXCEPT !.step =
                    IF LiquidityAt(sync.token_id, ReadBlock(sync.block_number, Latest)) > 0
                    THEN "decrease" ELSE "collect"]
             /\ pc' = pc
             /\ failed' = failed
             /\ positions' = positions
             /\ swallowed' = swallowed
             /\ log' = log
        ELSE /\ SyncFails
             /\ log' = Settled(log, "err")
    /\ UNCHANGED <<chain, cycle, st, cex, snapshot, pushed>>
    /\ UNCHANGED execVars

\* loop iteration, step 3: the decreaseLiquidity simulation answers; its Err is
\* not propagated
SyncDecrease ==
    /\ pc = "sync"
    /\ sync.step = "decrease"
    /\ \E simOk \in BOOLEAN :
        sync' = [sync EXCEPT !.sim = IF simOk THEN "ok" ELSE "decrease_fails",
                             !.step = "collect"]
    /\ UNCHANGED <<chain, positions, pc, cycle, st, cex, snapshot, failed, pushed, log,
                   swallowed>>
    /\ UNCHANGED execVars

\* loop iteration, steps 4 and 5: the collect simulation answers (its Err is not
\* propagated either) and the entry is inserted
SyncPosition ==
    /\ pc = "sync"
    /\ sync.step = "collect"
    /\ \E simOk \in BOOLEAN :
        LET b   == ReadBlock(sync.block_number, Latest)
            sim == IF simOk THEN sync.sim
                   ELSE IF sync.sim = "ok" THEN "collect_fails" ELSE "both_fail"
        IN  /\ positions' = Insert(positions, PositionDataAt(chain, b, sync.index, sim))
            /\ swallowed' = IF SimSwallowed(sync.token_id, b, sim)
                            THEN swallowed \cup {sync.token_id} ELSE swallowed
    /\ sync' = [sync EXCEPT !.index = sync.index + 1, !.step = "token",
                            !.token_id = 0, !.sim = "ok"]
    /\ UNCHANGED <<chain, pc, cycle, st, cex, snapshot, failed, pushed, log>>
    /\ UNCHANGED execVars

\* sync_lp has returned Ok: status() looks up the position of the configured pair,
\* converts its amounts and reads the block number
StatusMatch ==
    /\ pc = "sync"
    /\ sync.step = "token"
    /\ sync.index = sync.balance
    /\ \E rpcOk \in BOOLEAN :
        LET hit == FindPosition(positions)
        IN  IF ~hit.found
            THEN /\ rpcOk
                 /\ st' = NoLocals
                 /\ pc' = AfterStatus(FALSE)
                 /\ failed' = "amm_match"
                 /\ log' = Settled(log, "ok")
            ELSE IF ~rpcOk
            THEN /\ st' = NoLocals
                 /\ pc' = AfterStatus(FALSE)
                 /\ failed' = "block"
                 /\ log' = Issued(Settled(log, "ok"), "get_block_number", "err", 0)
            ELSE /\ st' = [block_number |-> Latest] @@ AmmAmounts(positions[hit.id])
                 /\ pc' = "cex"
                 /\ failed' = failed
                 /\ log' = Issued(Settled(log, "ok"), "get_block_number", "ok", Latest)
    /\ sync' = NoSync
    /\ UNCHANGED <<chain, positions, cycle, cex, snapshot, pushed, swallowed>>
    /\ UNCHANGED execVars

\* get_position up to its first await.  It reads the clock for the timestamp:
\* with a clock before the epoch binance_fapi_timestamp_ms() panics on its
\* unwrap() and the process ends with no request sent.  Otherwise send() answers
\* with the response, or with a transport error that `?` returns through
\* status() to main
StatusCexSend ==
    /\ pc = "cex"
    /\ \E outcome \in {"clock_before_epoch", "send_err", "sent"} :
        CASE outcome = "sent" ->
                /\ pc' = "cex_body"
                /\ st' = st
                /\ failed' = failed
                /\ log' = Issued(log, "get_position", "running", 0)
          [] outcome = "send_err" ->
                /\ pc' = AfterStatus(FALSE)
                /\ st' = NoLocals
                /\ failed' = "cex"
                /\ log' = Issued(log, "get_position", "err", 0)
          [] outcome = "clock_before_epoch" ->
                /\ pc' = "exited"
                /\ st' = NoLocals
                /\ failed' = "panic"
                /\ log' = Issued(log, "get_position", "panic", 0)
    /\ UNCHANGED <<chain, positions, cycle, sync, cex, snapshot, pushed, swallowed>>
    /\ UNCHANGED execVars

\* get_position, second await: .json::<Vec<Position>>() answers; status() selects
\* the record, parses it and returns
StatusCex ==
    /\ pc = "cex_body"
    /\ \E resp \in CexResponses :
        LET r == StatusFromCex(st, resp)
        IN  /\ cex' = resp
            /\ snapshot' = r.snapshot
            /\ failed' = r.err
            /\ pc' = AfterStatus(r.ok)
            /\ log' = Settled(log, IF resp.ok THEN "ok" ELSE "err")
    /\ st' = NoLocals
    /\ UNCHANGED <<chain, positions, cycle, sync, pushed, swallowed>>
    /\ UNCHANGED execVars

\* telegram.push_message(&message).await?
PushMessage ==
    /\ pc = "push"
    /\ \E sent \in BOOLEAN :
        IF sent
        THEN /\ pushed' = pushed \cup {cycle}
             /\ pc' = "sleep"
             /\ failed' = failed
        ELSE /\ pushed' = pushed
             /\ pc' = "exited"
             /\ failed' = "push"
    /\ UNCHANGED <<chain, positions, cycle, sync, st, cex, snapshot, log, swallowed>>
    /\ UNCHANGED execVars

\* tokio::time::sleep, then the next iteration of the loop
Sleep ==
    /\ pc = "sleep"
    /\ cycle < MaxCycles
    /\ cycle' = cycle + 1
    /\ pc' = "idle"
    /\ cex' = NoCex
    /\ snapshot' = NoSnapshot
    /\ log' = <<>>
    /\ swallowed' = {}
    /\ UNCHANGED <<chain, positions, sync, st, failed, pushed>>
    /\ UNCHANGED execVars

Next ==
    \/ ChainAdvance
    \/ StatusSyncBegin
    \/ SyncBalance
    \/ SyncTokenOfOwner
    \/ SyncPositionInfo
    \/ SyncDecrease
    \/ SyncPosition
    \/ StatusMatch
    \/ StatusCexSend
    \/ StatusCex
    \/ PushMessage
    \/ Sleep

Spec == Init /\ [][Next]_vars

-----------------------------------------------------------------------------
(* The decision engine on its own: execute() called once with any arguments,  *)
(* or with the ratio and delta of a snapshot.  Each await of the sink call is *)
(* a step: the venue answers send(), then the body is read.                   *)

InitExec ==
    /\ \E config \in Configs \cup InvalidConfigs :
            new(config).ok /\ cfg = new(config).engine
    /\ call \in DirectCalls \cup SnapshotCalls
    /\ venue = NoVenue
    /\ lastExec = NoExec
    /\ chain = <<<<>>>>
    /\ CycleInit

\* execute up to its first await: the early returns, or the sink call made and
\* get_orderbook's request sent
ExecuteBegin ==
    /\ lastExec = NoExec
    /\ \E r \in {execute(cfg, call.ratio, call.delta, venue)} :
            lastExec' = [calls |-> r.calls, placed |-> <<>>,
                         result |-> IF r.calls = <<>> THEN r.result ELSE "book"]
    /\ UNCHANGED <<cfg, call, venue>>
    /\ UNCHANGED cycleVars

\* a caller invokes execute(base_delta_ratio, base_delta) with arbitrary values
ExecuteCall == call.src = "call" /\ ExecuteBegin

\* a cycle feeds execute(snapshot.base_delta_ratio, snapshot.base_delta)
ExecuteOnSnapshot == call.src = "snapshot" /\ ExecuteBegin

\* get_orderbook, first await: send() answers with the response, or with a
\* transport error, on which the sink call returns Err
SinkOrderBookSend ==
    /\ lastExec.result = "book"
    /\ \E sent \in BOOLEAN :
        \E r \in {execute(cfg, call.ratio, call.delta, [venue EXCEPT !.sent = sent])} :
            /\ venue' = [venue EXCEPT !.sent = sent]
            /\ lastExec' = IF sent THEN [lastExec EXCEPT !.result = "book_body"]
                           ELSE [lastExec EXCEPT !.placed = r.placed,
                                                 !.result = IF r.placed = <<>> THEN r.result
                                                            ELSE "order"]
    /\ UNCHANGED <<cfg, call>>
    /\ UNCHANGED cycleVars

\* get_orderbook, second await: the body is read.  If it is no Orderbook, or the
\* side needed is empty, the sink call returns Err; otherwise the order is built
\* at the best price read and place_order sends it.  The body is no Orderbook
\* (ok = FALSE: it cannot be read or deserialized), or a book with a best bid /
\* ask or none
SinkOrderBook ==
    /\ lastExec.result = "book_body"
    /\ \E book \in
            {[ok |-> FALSE, bids |-> <<>>, asks |-> <<>>]} \cup
            {[ok |-> TRUE, bids |-> b, asks |-> a] :
                b \in {<<>>, <<"600">>}, a \in {<<>>, <<"601">>}} :
        \E r \in {execute(cfg, call.ratio, call.delta, [venue EXCEPT !.book = book])} :
            /\ venue' = [venue EXCEPT !.book = book]
            /\ lastExec' = [lastExec EXCEPT !.placed = r.placed,
                                            !.result = IF r.placed = <<>> THEN r.result
                                                       ELSE "order"]
    /\ UNCHANGED <<cfg, call>>
    /\ UNCHANGED cycleVars

\* place_order up to its first await.  It reads the clock for the timestamp:
\* with a clock before the epoch binance_fapi_timestamp_ms() panics on its
\* unwrap(), nothing is sent and execute does not return.  Otherwise send()
\* answers with a transport error, or with the response of an exchange that took
\* the order or refused it.  From here on the exchange has the order if it took
\* it, whatever the rest of place_order returns
SinkPlaceSend ==
    /\ lastExec.result = "order"
    /\ \E post \in {"clock_before_epoch", "send_err", "accepted", "rejected"} :
        IF post = "clock_before_epoch"
        THEN /\ venue' = venue
             /\ lastExec' = [lastExec EXCEPT !.result = "panic"]
        ELSE /\ venue' = [venue EXCEPT !.post = post]
             /\ lastExec' = [lastExec EXCEPT !.result =
                                IF post = "send_err"
                                THEN execute(cfg, call.ratio, call.delta,
                                             [venue EXCEPT !.post = post]).result
                                ELSE "order_body"]
    /\ UNCHANGED <<cfg, call>>
    /\ UNCHANGED cycleVars

\* place_order, second await: text() answers, the body is deserialized, and
\* execute returns what the sink call returned.  The body is unreadable, the
\* order as JSON, or another text (the error object of a refusal, or JSON that
\* is no OrderResponse)
SinkPlaceOrder ==
    /\ lastExec.result = "order_body"
    /\ \E body \in IF venue.post = "accepted" THEN {"unreadable", "other", "order"}
                    ELSE {"unreadable", "other"} :
        LET v == [venue EXCEPT !.body = body]
        IN  /\ venue' = v
            /\ lastExec' = [lastExec EXCEPT !.result =
                                execute(cfg, call.ratio, call.delta, v).result]
    /\ UNCHANGED <<cfg, call>>
    /\ UNCHANGED cycleVars

NextExec ==
    \/ ExecuteCall
    \/ ExecuteOnSnapshot
    \/ SinkOrderBookSend
    \/ SinkOrderBook
    \/ SinkPlaceSend
    \/ SinkPlaceOrder

SpecExec == InitExec /\ [][NextExec]_vars

-----------------------------------------------------------------------------
(* The monitor of the earlier generation: LPHMonitor::status (monitor.rs) over  *)
(* sync_lp of clients/uniswapv3/src/lib.rs, which pins no block: every contract *)
(* read is made at the head of its moment.  A caller invokes status() again     *)
(* after it returned.                                                           *)

\* a request of sync_lp failed: `?` returns the error through status()
MonitorFails ==
    /\ sync' = NoSync
    /\ pc' = "returned"
    /\ failed' = "sync"
    /\ positions' = positions
    /\ swallowed' = swallowed

\* status() is entered and sync_lp starts: balanceOf(owner).call()
MonitorSyncBegin ==
    /\ pc = "idle"
    /\ \E rpcOk \in BOOLEAN :
        IF rpcOk
        THEN /\ sync' = [NoSync EXCEPT
                    !.balance = balanceOf(chain, Latest),
                    !.step = IF balanceOf(chain, Latest) = 0 THEN "done" ELSE "token"]
             /\ pc' = "sync"
             /\ failed' = failed
             /\ positions' = positions
             /\ swallowed' = swallowed
             /\ log' = Issued(log, "sync_lp", "running", 0)
        ELSE /\ MonitorFails
             /\ log' = Issued(log, "sync_lp", "err", 0)
    /\ UNCHANGED <<chain, cycle, st, cex, snapshot, pushed>>
    /\ UNCHANGED execVars

\* first loop: tokenOfOwnerByIndex(owner, index).call() for index in 0..balance;
\* the call reverts when the owner holds fewer positions by now
MonitorTokenOfOwner ==
    /\ pc = "sync"
    /\ sync.step = "token"
    /\ \E rpcOk \in BOOLEAN :
        IF rpcOk /\ Len(sync.token_ids) < balanceOf(chain, Latest)
        THEN /\ sync' = [sync EXCEPT
                    !.token_ids = Append(sync.token_ids,
                        tokenOfOwnerByIndex(chain, Latest, Len(sync.token_ids))),
                    !.step = IF Len(sync.token_ids) + 1 = sync.balance
                             THEN "info" ELSE "token"]
             /\ pc' = pc
             /\ failed' = failed
             /\ positions' = positions
             /\ swallowed' = swallowed
             /\ log' = log
        ELSE /\ MonitorFails
             /\ log' = Settled(log, "err")
    /\ UNCHANGED <<chain, cycle, st, cex, snapshot, pushed>>
    /\ UNCHANGED execVars

\* second loop, step 2: positions(token_id).call()
MonitorPositionInfo ==
    /\ pc = "sync"
    /\ sync.step = "info"
    /\ \E rpcOk \in BOOLEAN :
        IF rpcOk
        THEN /\ sync' = [sync EXCEPT
                    !.token_id = sync.token_ids[sync.index + 1],
                    !.liquidity = LiquidityAt(sync.token_ids[sync.index + 1], Latest),
                    !.withdrawable = <<0, 0>>,
                    !.step = IF LiquidityAt(sync.token_ids[sync.index + 1], Latest) > 0
                             THEN "decrease" ELSE "collect"]
             /\ pc' = pc
             /\ failed' = failed
             /\ positions' = positions
             /\ swallowed' = swallowed
             /\ log' = log
        ELSE /\ MonitorFails
             /\ log' = Settled(log, "err")
    /\ UNCHANGED <<chain, cycle, st, cex, snapshot, pushed>>
    /\ UNCHANGED execVars

\* second loop, step 3: the decreaseLiquidity simulation answers; on Err the
\* amounts stay zero
MonitorDecrease ==
    /\ pc = "sync"
    /\ sync.step = "decrease"
    /\ \E simOk \in BOOLEAN :
        /\ sync' = [sync EXCEPT
                !.withdrawable = IF simOk THEN decreaseLiquidity(sync.token_id, Latest)
                                 ELSE <<0, 0>>,
                !.step = "collect"]
        /\ swallowed' = IF simOk THEN swallowed ELSE swallowed \cup {sync.token_id}
    /\ UNCHANGED <<chain, positions, pc, cycle, st, cex, snapshot, failed, pushed, log>>
    /\ UNCHANGED execVars

\* second loop, steps 4 and 5: the collect simulation answers (on Err the amounts
\* stay zero) and the entry is inserted
MonitorPosition ==
    /\ pc = "sync"
    /\ sync.step = "collect"
    /\ \E simOk \in BOOLEAN :
        LET collectable == IF simOk THEN collect(sync.token_id, Latest) ELSE <<0, 0>>
            position_data ==
                [token_id |-> sync.token_id,
                 token0 |-> Token0(sync.token_id),
                 token1 |-> Token1(sync.token_id),
                 liquidity |-> sync.liquidity,
                 withdrawable_amount0 |-> sync.withdrawable[1],
                 withdrawable_amount1 |-> sync.withdrawable[2],
                 collectable_amount0 |-> collectable[1],
                 collectable_amount1 |-> collectable[2]]
        IN
        /\ positions' = Insert(positions, position_data)
        /\ swallowed' = IF simOk THEN swallowed ELSE swallowed \cup {sync.token_id}
    /\ sync' = [sync EXCEPT
            !.index = sync.index + 1,
            !.step = IF sync.index + 1 < Len(sync.token_ids) THEN "info" ELSE "done"]
    /\ UNCHANGED <<chain, pc, cycle, st, cex, snapshot, failed, pushed, log>>
    /\ UNCHANGED execVars

\* sync_lp has returned Ok: status() looks up the position of the configured pair,
\* converts its two amounts and awaits get_block_number
MonitorMatch ==
    /\ pc = "sync"
    /\ sync.step = "done"
    /\ \E rpcOk \in BOOLEAN :
        LET hit == FindPosition(positions)
        IN  IF ~hit.found
            THEN /\ rpcOk
                 /\ st' = NoLocals
                 /\ pc' = "returned"
                 /\ failed' = "amm_match"
                 /\ log' = Settled(log, "ok")
            ELSE IF ~rpcOk
            THEN /\ st' = NoLocals
                 /\ pc' = "returned"
                 /\ failed' = "block"
                 /\ log' = Issued(Settled(log, "ok"), "get_block_number", "err", 0)
            ELSE /\ st' = [block_number |-> Latest] @@ MonitorAmounts(positions[hit.id])
                 /\ pc' = "cex"
                 /\ failed' = failed
                 /\ log' = Issued(Settled(log, "ok"), "get_block_number", "ok", Latest)
    /\ sync' = NoSync
    /\ UNCHANGED <<chain, positions, cycle, cex, snapshot, pushed, swallowed>>
    /\ UNCHANGED execVars

\* get_position up to its first await: with a clock before the epoch the
\* timestamp's unwrap() panics, no request is sent and status() does not return
MonitorCexSend ==
    /\ pc = "cex"
    /\ \E outcome \in {"clock_before_epoch", "send_err", "sent"} :
        CASE outcome = "sent" ->
                /\ pc' = "cex_body"
                /\ st' = st
                /\ failed' = failed
                /\ log' = Issued(log, "get_position", "running", 0)
          [] outcome = "send_err" ->
                /\ pc' = "returned"
                /\ st' = NoLocals
                /\ failed' = "cex"
                /\ log' = Issued(log, "get_position", "err", 0)
          [] outcome = "clock_before_epoch" ->
                /\ pc' = "panicked"
                /\ st' = NoLocals
                /\ failed' = "panic"
                /\ log' = Issued(log, "get_position", "panic", 0)
    /\ UNCHANGED <<chain, positions, cycle, sync, cex, snapshot, pushed, swallowed>>
    /\ UNCHANGED execVars

\* get_position, second await; status() selects the record, parses it, reads the
\* clock and returns.  Among the bodies is a record whose isolated_wallet does
\* not parse; the clock gives Err or the milliseconds
MonitorCex ==
    /\ pc = "cex_body"
    /\ \E resp \in CexResponses \cup
                    {[ok |-> TRUE,
                      list |-> <<[GoodPosition EXCEPT !.isolated_wallet = <<"n", "/", "a">>]>>]},
          now \in {[ok |-> FALSE, millis |-> 0], [ok |-> TRUE, millis |-> 1701]} :
        LET r == MonitorFromCex(st, resp, now)
        IN  /\ cex' = resp
            /\ snapshot' = r.snapshot
            /\ failed' = r.err
            /\ log' = Settled(log, IF resp.ok THEN "ok" ELSE "err")
    /\ pc' = "returned"
    /\ st' = NoLocals
    /\ UNCHANGED <<chain, positions, cycle, sync, pushed, swallowed>>
    /\ UNCHANGED execVars

\* the caller invokes status() again
MonitorAgain ==
    /\ pc = "returned"
    /\ cycle < MaxCycles
    /\ cycle' = cycle + 1
    /\ pc' = "idle"
    /\ cex' = NoCex
    /\ snapshot' = NoSnapshot
    /\ failed' = "none"
    /\ log' = <<>>
    /\ swallowed' = {}
    /\ UNCHANGED <<chain, positions, sync, st, pushed>>
    /\ UNCHANGED execVars

NextMonitor ==
    \/ ChainAdvance
    \/ MonitorSyncBegin
    \/ MonitorTokenOfOwner
    \/ MonitorPositionInfo
    \/ MonitorDecrease
    \/ MonitorPosition
    \/ MonitorMatch
    \/ MonitorCexSend
    \/ MonitorCex
    \/ MonitorAgain

SpecMonitor == Init /\ [][NextMonitor]_vars

-----------------------------------------------------------------------------
(* Properties of the decision engine (checked under SpecExec) *)

\* execute has returned
ExecDone == lastExec.result \in {"Ok", "Err"}

\* the f64 numbers 0.01, 0.05 and 0.1
Hundredth == F64Of(1)

FiveHundredths == F64Of(5)

Tenth == F64Of(10)

\* the call's ratio is > n on f64: false when either side is NaN
RatioGt(n) ==
    IF call.ratio.den = One THEN FGt(call.ratio.num, n)
    ELSE ~RatioIsNaN(call.ratio) /\ ~IsNaN(n) /\ ~RatioLeq(call.ratio, n)

\* the call's ratio is < 0
RatioNegative == ~RatioIsNaN(call.ratio) /\ IsNeg(call.ratio.num)

\* C1 as stated: execute(ratio, delta) makes no order-sink call and returns Ok
\* unless ratio > n and |delta| > m and delta # 0, both comparisons strict, for
\* every input and all thresholds n and m (m a step, m > 0).
C1_NoOrderUnlessStrictlyBeyond ==
    (ExecDone /\ FGt(cfg.m, Zero)
        /\ ~(RatioGt(cfg.n) /\ FGt(FAbs(call.delta), cfg.m) /\ ~FEq(call.delta, Zero)))
        => (lastExec.calls = <<>> /\ lastExec.placed = <<>> /\ lastExec.result = "Ok")

\* C2: whenever ratio > n and |delta| > m (m a step, m > 0), execute makes
\* exactly one sink call, open_sell(symbol, quantity) when delta > 0 and
\* close_sell(symbol, quantity) when delta < 0; amm_base = 12,
\* futures_position = -5, n = 0.05, m = 0.1 gives open_sell with quantity "7.0".
C2_DirectionBySign ==
    (ExecDone /\ FGt(cfg.m, Zero) /\ RatioGt(cfg.n) /\ FGt(FAbs(call.delta), cfg.m)) =>
        /\ Len(lastExec.calls) = 1
        /\ lastExec.calls[1].symbol = SYMBOL
        /\ FGt(call.delta, Zero) => lastExec.calls[1].fn = "open_sell"
        /\ IsNeg(call.delta) => lastExec.calls[1].fn = "close_sell"
        /\ (call.src = "snapshot" /\ call.amm = Finite(1200, 0) /\ call.fut = Finite(-500, 0)
                /\ cfg.n = FiveHundredths /\ cfg.m = Tenth)
            => (lastExec.calls[1].fn = "open_sell"
                /\ lastExec.calls[1].amount = <<"7", ".", "0">>)

\* scenario B was run and produced the open_sell call
C2_Witness ==
    /\ ExecDone
    /\ call.src = "snapshot" /\ call.amm = Finite(1200, 0) /\ call.fut = Finite(-500, 0)
    /\ cfg.n = FiveHundredths /\ cfg.m = Tenth
    /\ Len(lastExec.calls) = 1
    /\ lastExec.calls[1].fn = "open_sell"

\* C3: for every step m > 0 and every triggering delta, the quantity text passed
\* to open_sell / close_sell, read as a decimal number, is strictly positive and
\* an integer multiple of m.
C3_QuantityTextMultipleOfStep ==
    (ExecDone /\ FGt(cfg.m, Zero) /\ Len(lastExec.calls) = 1 /\ IsFinite(call.delta)) =>
        LET q == ParseF64(lastExec.calls[1].amount)
        IN  q.ok /\ IsFinite(q.val) /\ q.val.g > 0 /\ q.val.g % cfg.m.g = 0

\* C4 as stated: every snapshot with base_delta < 0 has a negative
\* base_delta_ratio, so with n >= 0 execute places no order on it; close_sell is
\* never called in a cycle that feeds execute from a snapshot with n >= 0.
C4_NoDecreaseFromSnapshot ==
    /\ (call.src = "snapshot" /\ IsNeg(call.delta)) => RatioNegative
    /\ (ExecDone /\ call.src = "snapshot" /\ FLe(Zero, cfg.n) /\ IsNeg(call.delta))
        => (lastExec.calls = <<>> /\ lastExec.placed = <<>>)
    /\ (ExecDone /\ call.src = "snapshot" /\ FLe(Zero, cfg.n))
        => \A i \in 1..Len(lastExec.calls) : lastExec.calls[i].fn # "close_sell"

\* C5 as stated: with n < 0, every snapshot whose delta satisfies |delta| > m
\* makes execute place an order.
C5_NegativeThresholdAlwaysTriggers ==
    (ExecDone /\ call.src = "snapshot" /\ IsFinite(call.fut)
        /\ IsNeg(cfg.n) /\ FGt(cfg.m, Zero) /\ FGt(FAbs(call.delta), cfg.m))
        => Len(lastExec.calls) = 1

\* C5 amended: with n < 0, every snapshot of finite legs whose delta is positive
\* and exceeds m makes execute place an order (open_sell); one with a negative
\* delta, |delta| > m, does so exactly when its ratio delta / base_reference is
\* still > n.
C5_NegativeThresholdAmended ==
    (ExecDone /\ call.src = "snapshot" /\ IsFinite(call.fut)
        /\ IsNeg(cfg.n) /\ FGt(cfg.m, Zero) /\ FGt(FAbs(call.delta), cfg.m)) =>
        /\ FGt(call.delta, Zero) =>
                (Len(lastExec.calls) = 1 /\ lastExec.calls[1].fn = "open_sell")
        /\ IsNeg(call.delta) => (Len(lastExec.calls) = 1 <=> RatioGt(cfg.n))

\* a snapshot with a negative delta beyond m triggered close_sell under n < 0
C5_Witness ==
    /\ ExecDone
    /\ call.src = "snapshot" /\ IsNeg(cfg.n) /\ IsNeg(call.delta)
    /\ FGt(FAbs(call.delta), cfg.m)
    /\ Len(lastExec.calls) = 1
    /\ lastExec.calls[1].fn = "close_sell"

\* C11: for every AMM base amount a and futures position p the snapshot has
\* base_delta = a + p, the f64 sum of the legs (whose decimal is the sum of their
\* decimals), and base_delta_ratio = base_delta / max(|a|, |p|, 1e-8);
\* ratio(10, -10) = 0, ratio(10, 0) = 1 and ratio(0, 0) = 0.  Evaluated on f64,
\* the formula gives NaN when p is NaN or an infinity, and so does the snapshot.
C11_RatioFormula ==
    /\ (call.src = "snapshot" /\ ~IsFinite(call.fut)) => RatioIsNaN(call.ratio)
    /\ (call.src = "snapshot" /\ IsFinite(call.fut)) =>
        LET a    == call.amm
            p    == call.fut
            legs == FMax(FAbs(a), FAbs(p))
        IN  /\ call.delta = FAdd(a, p)
            /\ call.delta.g = a.g + p.g
            /\ call.ratio.num = call.delta
            /\ legs # Zero => call.ratio.den = legs
            /\ legs = Zero => call.ratio.den = EPSILON
            /\ (a = Finite(10 * Scale, 0) /\ p = Finite(-10 * Scale, 0))
                    => call.ratio = Ratio(Zero, a)
            /\ (a = Finite(10 * Scale, 0) /\ p = Zero) => call.ratio = Ratio(a, a)
            /\ (a = Zero /\ p = Zero) => call.ratio = Ratio(Zero, EPSILON)

\* the decision ran on the snapshot of the legs (10, -10), whose ratio is 0
C11_Witness ==
    /\ ExecDone
    /\ call.src = "snapshot"
    /\ call.amm = Finite(10 * Scale, 0) /\ call.fut = Finite(-10 * Scale, 0)
    /\ call.ratio.num = Zero

\* C12 as stated: in every snapshot computation base_reference is at least
\* epsilon, never zero, so base_delta_ratio is defined (a number), and
\* |base_delta_ratio| <= 2 for every pair of legs, both legs at zero included.
C12_ReferenceFlooredRatioBounded ==
    call.src = "snapshot" =>
        LET ref == base_reference(call.amm, call.fut)
        IN  /\ ref = EPSILON \/ FGt(ref, Zero)
            /\ ~RatioIsNaN(call.ratio)
            /\ RatioLeq(call.ratio, Finite(2 * Scale, 0))
            /\ RatioLeq(Ratio(FNeg(call.ratio.num), call.ratio.den), Finite(2 * Scale, 0))

\* C16 as stated: LPHStrategy::new rejects a non-positive step m, so no engine
\* exists, and no order is ever computed, with m <= 0.
C16_NonPositiveStepRejected ==
    /\ \A config \in Configs \cup InvalidConfigs : FLe(config.m, Zero) => ~new(config).ok
    /\ FGt(cfg.m, Zero)
    /\ Len(lastExec.calls) > 0 => FGt(cfg.m, Zero)

\* C20: every order close_sell submits is a reduce-only BUY limit order on the
\* SHORT side, and every order open_sell submits is a SELL limit order on the
\* SHORT side with reduce_only = false.
C20_CloseSellReduceOnly ==
    \A i \in 1..Len(lastExec.placed) :
        LET req == lastExec.placed[i]
        IN  /\ Len(lastExec.calls) = 1
            /\ req.position_side = "SHORT"
            /\ req.order_type = "LIMIT"
            /\ req.symbol = SYMBOL
            /\ lastExec.calls[1].fn = "close_sell" =>
                    (req.side = "BUY" /\ req.reduce_only = TRUE)
            /\ lastExec.calls[1].fn = "open_sell" =>
                    (req.side = "SELL" /\ req.reduce_only = FALSE)

\* a negative delta made execute call close_sell, which submitted one order that
\* the exchange took
C20_Witness ==
    /\ ExecDone
    /\ IsNeg(call.delta)
    /\ Len(lastExec.calls) = 1
    /\ lastExec.calls[1].fn = "close_sell"
    /\ Len(lastExec.placed) = 1
    /\ lastExec.placed[1].reduce_only = TRUE
    /\ venue.post = "accepted"
    /\ lastExec.result = "Ok"

\* C21: for a number x >= 0, round_to_step(x, m) with m > 0 is round(x / m) * m:
\* the f64 product of m and a whole k >= 0, a multiple of m nearest to x in
\* decimals; a quotient that is a half in f64 (a half step where x and m are
\* exact in f64) is rounded away from zero, 0.15 / 0.1, which is
\* 1.4999999999999998 in f64, is rounded to 1, and 0.25 / 0.1 to 3, which gives
\* 0.30000000000000004; with m <= 0 the result is x unchanged, and
\* round_to_step(x, 0) = x.
C21_RoundToStep ==
    LET x == FAbs(call.delta)
        q == round_to_step(x, cfg.m)
    IN  /\ (FGt(cfg.m, Zero) /\ IsFinite(x)) =>
                /\ \E k \in {x.g \div cfg.m.g, x.g \div cfg.m.g + 1} :
                        /\ q = Times(cfg.m, k)
                        /\ 2 * Abs(k * cfg.m.g - x.g) <= cfg.m.g
                        /\ (x.d = 0 /\ cfg.m.d = 0 /\ 2 * Abs(k * cfg.m.g - x.g) = cfg.m.g)
                                => k * cfg.m.g > x.g
                /\ (cfg.m = Tenth /\ x = F64Of(15)) => q = Tenth
                /\ (cfg.m = Tenth /\ x = F64Of(25)) => q = Times(Tenth, 3)
        /\ FLe(cfg.m, Zero) => q = x
        /\ round_to_step(x, Zero) = x
        /\ Len(lastExec.calls) = 1 => lastExec.calls[1].quantity = q

\* execute rounded |delta| = 2.5 with step 1 to the order quantity 3
C21_Witness ==
    /\ ExecDone
    /\ cfg.m = One
    /\ FAbs(call.delta) = Finite(250, 0)
    /\ Len(lastExec.calls) = 1
    /\ lastExec.calls[1].quantity = Finite(3 * Scale, 0)

\* the number of characters after the decimal point of a text (0 without a point)
DecimalPlaces(text) ==
    LET dots == {i \in 1..Len(text) : text[i] = "."}
    IN  IF dots = {} THEN 0 ELSE Len(text) - (CHOOSE i \in dots : TRUE)

\* C22: format_quantity(q, m) renders a number q with a number of decimal places
\* that depends on m only: none when m >= 1, otherwise ceil(log10(1 / m)); m = 1
\* gives "7", m = 0.1 gives "7.3" and m = 0.01 gives two places.
C22_FormatQuantityPlaces ==
    (Len(lastExec.calls) = 1 /\ FGt(cfg.m, Zero) /\ IsFinite(lastExec.calls[1].quantity)) =>
        LET text == lastExec.calls[1].amount
            q    == lastExec.calls[1].quantity
        IN  /\ cfg.m.g >= Scale =>
                    (DecimalPlaces(text) = 0 /\ \A i \in 1..Len(text) : text[i] # ".")
            /\ (cfg.m.g < Scale /\ 10 * cfg.m.g >= Scale) => DecimalPlaces(text) = 1
            /\ (10 * cfg.m.g < Scale /\ 100 * cfg.m.g >= Scale) => DecimalPlaces(text) = 2
            /\ (cfg.m = One /\ q = Finite(7 * Scale, 0)) => text = <<"7">>
            /\ (cfg.m = Tenth /\ q.g = 730) => text = <<"7", ".", "3">>
            /\ (cfg.m = Hundredth /\ q.g = 730) => text = <<"7", ".", "3", "0">>

\* the snapshot of the legs (12.3, -5) with m = 0.1 gave the quantity text "7.3"
C22_Witness ==
    /\ ExecDone
    /\ cfg.m = Tenth
    /\ call.src = "snapshot"
    /\ Len(lastExec.calls) = 1
    /\ lastExec.calls[1].amount = <<"7", ".", "3">>

\* the side of the book the sink call reads: asks for open_sell, bids for close_sell
RelevantSide ==
    IF lastExec.calls[1].fn = "open_sell" THEN venue.book.asks ELSE venue.book.bids

\* the order book request of the sink call failed or gave nothing to trade at:
\* send() failed, the body was no Orderbook, or the side it needs was empty
BookFailed == ~venue.sent \/ ~venue.book.ok \/ Len(RelevantSide) = 0

\* the one sink call of the execute() call under study failed: at the order
\* book, or in place_order (send() failed, the body was unreadable or no order)
SinkFailed ==
    /\ Len(lastExec.calls) = 1
    /\ \/ BookFailed
       \/ venue.post = "send_err"
       \/ venue.body # "order"

\* C26: one execute call makes at most one sink call, never both open_sell and
\* close_sell; it returns Ok with no sink call when the rule does not trigger,
\* and returns Err exactly when the one sink call it made failed.
C26_AtMostOneSinkCall ==
    /\ Len(lastExec.calls) <= 1
    /\ Len(lastExec.placed) <= Len(lastExec.calls)
    /\ ExecDone =>
        /\ ~Triggers(cfg.n, cfg.m, call.ratio, call.delta) =>
                (lastExec.calls = <<>> /\ lastExec.result = "Ok")
        /\ lastExec.result = "Err" <=> SinkFailed

\* execute made its one sink call, the exchange took the order, the body of its
\* answer could not be read, and execute returned Err
C26_Witness ==
    /\ ExecDone
    /\ Len(lastExec.calls) = 1
    /\ Len(lastExec.placed) = 1
    /\ venue.post = "accepted"
    /\ venue.body = "unreadable"
    /\ lastExec.result = "Err"

\* C27: open_sell and close_sell submit at most one order, and only after the
\* order book was fetched with a non-empty relevant side, at that side's best
\* price; if the request fails or the side is empty they return Err and submit
\* nothing.
C27_BookBeforeOrder ==
    Len(lastExec.calls) = 1 =>
        /\ Len(lastExec.placed) <= 1
        /\ lastExec.result \in {"book", "book_body"} => lastExec.placed = <<>>
        /\ Len(lastExec.placed) = 1 =>
                /\ ~BookFailed
                /\ lastExec.placed[1].price = RelevantSide[1]
        /\ (lastExec.result \notin {"book", "book_body"} /\ BookFailed) =>
                (lastExec.placed = <<>> /\ lastExec.result = "Err")

\* open_sell found the asks empty and returned Err without submitting an order
C27_Witness ==
    /\ ExecDone
    /\ Len(lastExec.calls) = 1
    /\ lastExec.calls[1].fn = "open_sell"
    /\ venue.sent
    /\ venue.book.ok
    /\ Len(venue.book.asks) = 0
    /\ lastExec.placed = <<>>
    /\ lastExec.result = "Err"

\* what the two f64 roundings of round_to_step may add to twice the distance:
\* the division and the multiplication each err by at most 2^-53 of their
\* result, together by less than 2^-51 * (x + m); doubled, in units of
\* 2^-DevBits of a hundredth, and taken a unit short to stay whole
RoundingSlack(x, m) == 512 * (x.g + m.g) - 1

\* 2 * |q - x| <= m + slack, on the exact values of the three f64 numbers
\* (slack in units of 2^-DevBits of a hundredth)
WithinHalfStep(q, x, m, slack) ==
    LET up == q.g > x.g \/ (q.g = x.g /\ q.d >= x.d)
        dg == IF up THEN q.g - x.g ELSE x.g - q.g
        dd == IF up THEN q.d - x.d ELSE x.d - q.d
    IN  2 * dg < m.g \/ (2 * dg = m.g /\ 2 * dd <= m.d + slack)

\* C28 as stated: for every m > 0 and every triggering delta that is a finite
\* number, the quantity execute computes before formatting is at least m and
\* differs from |delta| by at most m / 2.
C28_QuantityNearDelta ==
    (ExecDone /\ FGt(cfg.m, Zero) /\ Len(lastExec.calls) = 1 /\ IsFinite(call.delta)) =>
        LET quantity == lastExec.calls[1].quantity
        IN  /\ FGt(FAbs(call.delta), cfg.m)
            /\ FLe(cfg.m, quantity)
            /\ WithinHalfStep(quantity, FAbs(call.delta), cfg.m, 0)

\* C28 amended: for every m > 0 and every triggering delta that is a finite
\* number, the quantity is at least m, so never zero, and, when it is finite,
\* differs from |delta| by at most m / 2 plus the rounding of the two f64
\* operations: |quantity - |delta|| <= m / 2 + 2^-51 * (|delta| + m).
C28_QuantityNearDeltaRounded ==
    (ExecDone /\ FGt(cfg.m, Zero) /\ Len(lastExec.calls) = 1 /\ IsFinite(call.delta)) =>
        LET quantity == lastExec.calls[1].quantity
        IN  /\ FGt(FAbs(call.delta), cfg.m)
            /\ FLe(cfg.m, quantity)
            /\ IsFinite(quantity) =>
                    WithinHalfStep(quantity, FAbs(call.delta), cfg.m,
                                   RoundingSlack(FAbs(call.delta), cfg.m))

\* a delta of 2.5 steps triggered and was rounded up to three steps, the f64
\* 0.30000000000000004
C28_Witness ==
    /\ ExecDone
    /\ cfg.m = Tenth
    /\ call.delta = Finite(-25, 0)
    /\ Len(lastExec.calls) = 1
    /\ lastExec.calls[1].quantity = Times(Tenth, 3)

-----------------------------------------------------------------------------
(* Properties of the poll cycle (checked under Spec) *)

\* entries of the positions table whose token pair is the configured pair, in
\* either order
PairMatchIds ==
    {t \in DOMAIN positions :
        {positions[t].token0, positions[t].token1}
            = {BASE_TOKEN_ADDRESS, USDT_TOKEN_ADDRESS}}

\* indices of the records of the CEX answer that carry the configured symbol
SymbolHits == {i \in 1..Len(cex.list) : cex.list[i].symbol = SYMBOL}

\* the steps of status() that can return an error
StatusSteps == {"sync", "amm_match", "block", "cex", "cex_match", "parse"}

\* C6 as stated: if more than one entry of the positions table matches the
\* configured pair, status fails and produces no snapshot.
C6_AmbiguousMatchFails ==
    Cardinality(PairMatchIds) > 1 => snapshot = NoSnapshot

\* C7: if no entry of the positions table matches the configured pair in either
\* order, status returns an error and no snapshot is produced for the cycle.
C7_NoAmmMatchIsError ==
    (PairMatchIds = {} /\ pc \notin {"idle", "balance", "sync"}) =>
        /\ pc = "exited"
        /\ failed \in {"sync", "amm_match"}
        /\ snapshot = NoSnapshot
        /\ cycle \notin pushed

\* status failed at the lookup with a non-empty table holding no matching pair
C7_Witness ==
    /\ failed = "amm_match"
    /\ pc = "exited"
    /\ DOMAIN positions # {}
    /\ PairMatchIds = {}

\* C8: status takes the CEX record whose symbol is the configured one; if
\* get_position's list holds no such record (the empty list included), status
\* returns an error and no snapshot.
C8_CexRecordBySymbol ==
    /\ (cex.ok /\ SymbolHits = {}) =>
            /\ pc = "exited"
            /\ failed = "cex_match"
            /\ snapshot = NoSnapshot
            /\ cycle \notin pushed
    /\ snapshot # NoSnapshot =>
            \E i \in SymbolHits :
                /\ snapshot.futures_timestamp = cex.list[i].update_time
                /\ snapshot.futures_position = ParseF64(cex.list[i].position_amt).val

\* the venue answered with records of another symbol only, and status failed
C8_Witness ==
    /\ cex.ok
    /\ Len(cex.list) > 0
    /\ SymbolHits = {}
    /\ failed = "cex_match"

\* some field among position_amt, unrealized_pnl, mark_price of the selected
\* record does not parse
UnparsableField ==
    /\ cex.ok
    /\ SymbolHits # {}
    /\ LET rec == cex.list[CHOOSE i \in SymbolHits : \A j \in SymbolHits : i <= j]
       IN  \/ ~ParseF64(rec.position_amt).ok
           \/ ~ParseF64(rec.unrealized_pnl).ok
           \/ ~ParseF64(rec.mark_price).ok

\* C9: if position_amt, unrealized_pnl or mark_price fails to parse, status
\* returns an error and no snapshot; no default stands in for the field.
C9_ParseFailureIsError ==
    UnparsableField =>
        /\ pc = "exited"
        /\ failed = "parse"
        /\ snapshot = NoSnapshot
        /\ cycle \notin pushed

\* the venue sent an unparsable unrealized_pnl and status failed on it
C9_Witness ==
    /\ UnparsableField
    /\ cex.list = <<BadPnlPosition>>
    /\ failed = "parse"

\* C10: in a cycle in which a step of status fails, no order is placed and no
\* message is pushed; a cycle that pushed a message had a complete snapshot.
C10_FailedCycleHasNoEffect ==
    /\ failed \in StatusSteps =>
            /\ pc = "exited"
            /\ snapshot = NoSnapshot
            /\ cycle \notin pushed
            /\ lastExec.calls = <<>>
            /\ lastExec.placed = <<>>
    /\ cycle \in pushed => (snapshot # NoSnapshot /\ failed \notin StatusSteps)

\* the second cycle failed at parsing after the first one pushed its message
C10_Witness ==
    /\ cycle = 2
    /\ 1 \in pushed
    /\ failed = "parse"
    /\ pc = "exited"

\* a position record with the two tokens, and their amounts, exchanged
Swapped(pos) ==
    [pos EXCEPT !.token0 = pos.token1,
                !.token1 = pos.token0,
                !.withdrawable_amount0 = pos.withdrawable_amount1,
                !.withdrawable_amount1 = pos.withdrawable_amount0,
                !.collectable_amount0 = pos.collectable_amount1,
                !.collectable_amount1 = pos.collectable_amount0]

\* the amount of a record on the side of the given token
SideOf(pos, token, amount0, amount1) == IF pos.token0 = token THEN amount0 ELSE amount1

\* C13: for the same CEX data a record (token0 = USDT, token1 = BASE) and the
\* record (token0 = BASE, token1 = USDT) with the same amounts per token give
\* identical status results; the base and usdt amounts of a snapshot, withdrawable
\* and collectable, are those of the side whose token is base_token_address.
C13_TokenOrderInvariance ==
    /\ pc = "cex" => \A t \in PairMatchIds : \A resp \in CexResponses :
            StatusFromCex([block_number |-> 1] @@ AmmAmounts(positions[t]), resp)
                = StatusFromCex([block_number |-> 1] @@ AmmAmounts(Swapped(positions[t])), resp)
    /\ snapshot # NoSnapshot =>
            LET pos == positions[FindPosition(positions).id]
            IN  /\ snapshot.amm_base_amount.g = SideOf(pos, BASE_TOKEN_ADDRESS,
                        pos.withdrawable_amount0, pos.withdrawable_amount1)
                /\ snapshot.amm_usdt_amount.g = SideOf(pos, USDT_TOKEN_ADDRESS,
                        pos.withdrawable_amount0, pos.withdrawable_amount1)
                /\ snapshot.amm_collectable_base.g = SideOf(pos, BASE_TOKEN_ADDRESS,
                        pos.collectable_amount0, pos.collectable_amount1)
                /\ snapshot.amm_collectable_usdt.g = SideOf(pos, USDT_TOKEN_ADDRESS,
                        pos.collectable_amount0, pos.collectable_amount1)

\* a snapshot was built from a record whose token0 is USDT, with non-zero amounts
C13_Witness ==
    /\ snapshot # NoSnapshot
    /\ LET pos == positions[FindPosition(positions).id]
       IN  /\ pos.token0 = USDT_TOKEN_ADDRESS
           /\ pos.withdrawable_amount1 > 0
           /\ pos.withdrawable_amount0 # pos.withdrawable_amount1
           /\ snapshot.amm_base_amount.g = pos.withdrawable_amount1

\* the order in which status() issues its collaborator calls
StatusCallOrder == <<"sync_lp", "get_block_number", "get_position">>

\* C14: within one status cycle the collaborator calls are issued in the order
\* sync_lp, get_block_number, get_position; a call is issued only after the
\* previous one returned Ok, so after a failed call no later call is issued.
C14_CallsInOrder ==
    /\ Len(log) <= Len(StatusCallOrder)
    /\ \A i \in 1..Len(log) :
            /\ log[i].fn = StatusCallOrder[i]
            /\ i < Len(log) => log[i].state = "ok"

\* sync_lp and get_block_number returned Ok and get_position then failed
C14_Witness ==
    /\ Len(log) = 3
    /\ log[1].state = "ok" /\ log[2].state = "ok"
    /\ log[3].fn = "get_position" /\ log[3].state = "err"
    /\ failed = "cex"

\* C15 as stated: every cycle that builds a snapshot runs the decision (execute)
\* on it before the notifier is invoked.
C15_DecisionBeforeNotifier ==
    (pc = "push" \/ cycle \in pushed) => ExecDone

\* C17 as stated: snapshot.block_number is the block at which sync_lp read the
\* amounts the snapshot carries, however the chain advances during the cycle.
C17_BlockNumberIsSyncBlock ==
    snapshot # NoSnapshot => snapshot.block_number = log[1].block

\* sync_lp returned Ok in this cycle
SyncReturnedOk == Len(log) >= 1 /\ log[1].fn = "sync_lp" /\ log[1].state = "ok"

\* the token ids the owner holds at block b
OwnedAt(b) == {chain[b][i] : i \in 1..Len(chain[b])}

\* C18 as stated: after sync_lp returns Ok, positions() has an entry for exactly
\* the token ids the owner held at the synced block.
C18_TableIsOwnedSet ==
    SyncReturnedOk => DOMAIN positions = OwnedAt(log[1].block)

\* the table an engine built in this cycle holds after the same sync_lp
FreshPositions ==
    [t \in (DOMAIN positions) \cap OwnedAt(log[1].block) |-> positions[t]]

\* C19 as stated: the outcome of a cycle is that of an engine with the same
\* configuration that saw only this cycle's chain state and CEX responses: the
\* same position is matched, or the lookup fails in both.
C19_CycleDeterminedByInputs ==
    SyncReturnedOk =>
        LET mine  == FindPosition(positions)
            fresh == FindPosition(FreshPositions)
        IN  /\ mine.found = fresh.found
            /\ mine.found => positions[mine.id] = FreshPositions[fresh.id]

\* C23 as stated: no failure inside a cycle is silently recovered: a cycle in
\* which a decreaseLiquidity or collect simulation of sync_lp failed is aborted
\* with an error, builds no snapshot and pushes nothing.
C23_NoSilentRecovery ==
    swallowed # {} =>
        /\ snapshot = NoSnapshot
        /\ cycle \notin pushed
        /\ pc \in {"sync", "exited"}

\* x is the f64 next to g hundredths: a finite number within the f64 rounding
\* of it
Near(x, g) == IsFinite(x) /\ x.g = g /\ Abs(x.d) < Pow2(30)

\* C24: every snapshot satisfies amm_total_value_usdt = amm_base_amount *
\* base_price_usdt + amm_usdt_amount, amm_collectable_value_usdt =
\* amm_collectable_base * base_price_usdt + amm_collectable_usdt and
\* total_value_usdt = amm_total_value_usdt + unrealized_pnl, each within the
\* rounding of its f64 operations, the four AMM amounts being the raw integers
\* divided by 10^18 (raw amounts count units of 10^16).
C24_ValuationIdentities ==
    snapshot # NoSnapshot =>
        LET pos == positions[FindPosition(positions).id]
            raw(token, amount0, amount1) == IF pos.token0 = token THEN amount0 ELSE amount1
            price == snapshot.base_price_usdt
        IN  /\ IsFinite(price) =>
                /\ (snapshot.amm_base_amount.g * price.g) % Scale = 0
                /\ Near(snapshot.amm_total_value_usdt,
                        (snapshot.amm_base_amount.g * price.g) \div Scale
                            + snapshot.amm_usdt_amount.g)
                /\ Near(snapshot.amm_collectable_value_usdt,
                        (snapshot.amm_collectable_base.g * price.g) \div Scale
                            + snapshot.amm_collectable_usdt.g)
            /\ (IsFinite(price) /\ IsFinite(snapshot.unrealized_pnl)) =>
                    Near(snapshot.total_value_usdt,
                         snapshot.amm_total_value_usdt.g + snapshot.unrealized_pnl.g)
            /\ snapshot.unrealized_pnl = Inf => snapshot.total_value_usdt = Inf
            /\ Near(snapshot.amm_base_amount,
                    raw(BASE_TOKEN_ADDRESS, pos.withdrawable_amount0, pos.withdrawable_amount1))
            /\ Near(snapshot.amm_usdt_amount,
                    raw(USDT_TOKEN_ADDRESS, pos.withdrawable_amount0, pos.withdrawable_amount1))
            /\ Near(snapshot.amm_collectable_base,
                    raw(BASE_TOKEN_ADDRESS, pos.collectable_amount0, pos.collectable_amount1))
            /\ Near(snapshot.amm_collectable_usdt,
                    raw(USDT_TOKEN_ADDRESS, pos.collectable_amount0, pos.collectable_amount1))

\* a snapshot with a non-zero base amount, price and unrealized pnl was returned
C24_Witness ==
    /\ snapshot # NoSnapshot
    /\ FGt(snapshot.amm_base_amount, Zero)
    /\ FGt(snapshot.base_price_usdt, One)
    /\ IsFinite(snapshot.unrealized_pnl)
    /\ snapshot.unrealized_pnl # Zero
    /\ FGt(snapshot.amm_total_value_usdt, snapshot.amm_usdt_amount)
    /\ snapshot.total_value_usdt # snapshot.amm_total_value_usdt

\* C25: sync_lp only inserts or overwrites entries of the positions table: no
\* step removes a token id, and an entry changes only while sync_lp runs and only
\* if the owner holds its token at the synced block, so the entry of a token the
\* owner no longer holds keeps its last-synced amounts.
C25_TableNeverShrinks ==
    [][\A t \in DOMAIN positions :
            /\ t \in DOMAIN positions'
            /\ positions'[t] # positions[t] =>
                    (pc = "sync" /\ t \in OwnedAt(sync.block_number))]_vars

\* a sync returned Ok and the table still holds a token the owner no longer holds
C25_Witness ==
    /\ SyncReturnedOk
    /\ \E t \in DOMAIN positions : t \notin OwnedAt(log[1].block)

\* the records sync_lp can write for the index-th position of the owner at block b
EntriesAt(b, index) == {PositionDataAt(chain, b, index, sim) : sim \in SimOutcomes}

\* C29: sync_lp performs no rollback: at the step where it returns Err after
\* failing at the k-th owned position, the entries of the positions it already
\* processed hold the values read in this call, and no entry is restored or
\* changed by the failure; each successful iteration changes one entry only.
C29_NoRollback ==
    [][(pc = "sync" /\ sync.index < sync.balance) =>
            /\ (pc' # "sync" /\ failed' = "sync") =>
                    /\ positions' = positions
                    /\ \A i \in 0..(sync.index - 1) :
                            LET t == tokenOfOwnerByIndex(chain, sync.block_number, i)
                            IN  /\ t \in DOMAIN positions'
                                /\ positions'[t] \in EntriesAt(sync.block_number, i)
            /\ \A t \in DOMAIN positions :
                    t # tokenOfOwnerByIndex(chain, sync.block_number, sync.index)
                        => (t \in DOMAIN positions' /\ positions'[t] = positions[t])]_vars

\* a sync failed at its second position: entry 1 was read at block 2 in this
\* call and entry 2 still holds what an earlier sync read at block 1
C29_Witness ==
    /\ pc = "exited"
    /\ failed = "sync"
    /\ DOMAIN positions = {1, 2}
    /\ positions[1].collectable_amount0 = BaseFeeAt(1, 2)
    /\ positions[2].collectable_amount1 = BaseFeeAt(2, 1)

\* C30: all contract reads of one sync_lp call are made at the block fetched at
\* its start: while it runs, and after it returned Ok, the entry of every
\* position it processed is what the contract holds at that block, even if the
\* chain advanced during the sync.
C30_ReadsPinnedToOneBlock ==
    /\ pc \in {"balance", "sync"} =>
            /\ ReadBlock(sync.block_number, Latest) = sync.block_number
            /\ sync.block_number = log[1].block
    /\ pc = "sync" =>
            /\ sync.balance = balanceOf(chain, sync.block_number)
            /\ sync.step \in {"info", "decrease", "collect"} =>
                    sync.token_id = tokenOfOwnerByIndex(chain, sync.block_number, sync.index)
            /\ \A i \in 0..(sync.index - 1) :
                    LET t == tokenOfOwnerByIndex(chain, sync.block_number, i)
                    IN  t \in DOMAIN positions /\ positions[t] \in EntriesAt(sync.block_number, i)
    /\ SyncReturnedOk =>
            \A i \in 0..(balanceOf(chain, log[1].block) - 1) :
                LET t == tokenOfOwnerByIndex(chain, log[1].block, i)
                IN  t \in DOMAIN positions /\ positions[t] \in EntriesAt(log[1].block, i)

\* a sync that started at block 1 returned Ok after the chain had advanced, and
\* wrote the amounts of block 1
C30_Witness ==
    /\ SyncReturnedOk
    /\ log[1].block = 1
    /\ Latest = 2
    /\ cycle = 1
    /\ 1 \in DOMAIN positions
    /\ positions[1].withdrawable_amount0 = BaseRawAt(1, 1)
    /\ BaseRawAt(1, 1) # BaseRawAt(1, 2)

====
